---- MODULE Spec2Model ----
(***************************************************************************)
(* Model of the search request pipeline of smart_travel_scout:             *)
(* src/src/app/api/search/route.ts (POST handler, rate limiter, prompt     *)
(* cache, keyword shortcut, zod schemas, budget parsing) over the          *)
(* inventory of src/src/lib/data.ts.                                       *)
(*                                                                         *)
(* Strings are TLA+ strings; a character is a string of length 1 obtained  *)
(* with SubSeq.  Time is Date.now() in milliseconds.                       *)
(***************************************************************************)
EXTENDS Integers, Sequences, FiniteSets, TLC

\* ------------------------------------------------------------------------
\* Program constants (route.ts)
\* ------------------------------------------------------------------------
MAX_QUERY_LENGTH == 500
LLM_TIMEOUT_MS == 15000
CACHE_TTL_MS == 300000
windowMs == 60000
maxRequests == 10
MaxReasonLen == 200
MaxMatches == 5
CheapCeiling == 60
ExpensiveFloor == 200

\* ------------------------------------------------------------------------
\* Bounds of the model
\* ------------------------------------------------------------------------
\* requests the general specification lets arrive
MaxArrivals == 2
\* requests the burst specification lets arrive (more than maxRequests)
MaxBurst == 12
\* clock advances
MaxTicks == 2
\* changes of the GEMINI_API_KEY environment variable
MaxEnvChanges == 1
\* requests handled at the same time
MaxInFlight == 2
\* requests the wide-input specification lets arrive
MaxWide == 1

\* ------------------------------------------------------------------------
\* Characters and JavaScript string helpers
\* ------------------------------------------------------------------------
Char(s, i) == SubSeq(s, i, i)

UpperChars == "ABCDEFGHIJKLMNOPQRSTUVWXYZ"
LowerChars == "abcdefghijklmnopqrstuvwxyz"
DigitChars == "0123456789"

UpperSet == {Char(UpperChars, i) : i \in 1..26}
LowerSet == {Char(LowerChars, i) : i \in 1..26}
DigitSet == {Char(DigitChars, i) : i \in 1..10}
LowerOf == [c \in UpperSet |-> Char(LowerChars, CHOOSE i \in 1..26 : Char(UpperChars, i) = c)]

IsSpace(c) == c \in {" ", "\t", "\n", "\r"}
IsDigit(c) == c \in DigitSet
IsUpper(c) == c \in UpperSet
IsLower(c) == c \in LowerSet
\* \w of a JavaScript regular expression
IsWordChar(c) == IsUpper(c) \/ IsLower(c) \/ IsDigit(c) \/ c = "_"

LowerChar(c) == IF IsUpper(c) THEN LowerOf[c] ELSE c

\* String.prototype.toLowerCase, character by character (the string is halved to
\* keep the recursion shallow)
RECURSIVE toLowerCase(_)
toLowerCase(s) ==
    IF Len(s) = 0 THEN ""
    ELSE IF Len(s) = 1 THEN LowerChar(s)
    ELSE LET h == Len(s) \div 2 IN
         toLowerCase(SubSeq(s, 1, h)) \o toLowerCase(SubSeq(s, h + 1, Len(s)))

Min(S) == CHOOSE x \in S : \A y \in S : x <= y

\* String.prototype.trim: whitespace removed at both ends
trim(s) ==
    LET n == Len(s)
        lo == Min({i \in 1..(n + 1) : i > n \/ ~IsSpace(Char(s, i))})
        fromEnd == Min({k \in 0..n : k = n \/ ~IsSpace(Char(s, n - k))})
    IN IF lo > n THEN "" ELSE SubSeq(s, lo, n - fromEnd)

\* String.prototype.repeat
RECURSIVE Rep(_, _)
Rep(s, n) ==
    IF n = 0 THEN "" ELSE IF n = 1 THEN s
    ELSE Rep(s, n \div 2) \o Rep(s, n - (n \div 2))

\* s has w at position i
HasAt(s, i, w) == i >= 1 /\ i + Len(w) - 1 <= Len(s) /\ SubSeq(s, i, i + Len(w) - 1) = w

\* String.prototype.includes
includes(s, w) == \E i \in 1..(Len(s) + 1) : HasAt(s, i, w)

\* position after the longest run of whitespace (\s*) starting at i
SkipSpaces(s, i) ==
    Min({j \in i..(Len(s) + 1) : j > Len(s) \/ ~IsSpace(Char(s, j))})

\* position after the longest run of digits (\d+ is greedy) starting at i
SkipDigits(s, i) ==
    Min({j \in i..(Len(s) + 1) : j > Len(s) \/ ~IsDigit(Char(s, j))})

DigitValue(c) == (CHOOSE i \in 1..10 : Char(DigitChars, i) = c) - 1

\* parseInt(digits, 10) of a non-empty run of decimal digits
RECURSIVE parseInt(_)
parseInt(d) ==
    IF Len(d) = 0 THEN 0
    ELSE 10 * parseInt(SubSeq(d, 1, Len(d) - 1)) + DigitValue(Char(d, Len(d)))

\* ------------------------------------------------------------------------
\* Inventory (src/lib/data.ts)
\* ------------------------------------------------------------------------
travelPackages ==
    << [id |-> 1, price |-> 120, tags |-> <<"cold", "nature", "hiking">>],
       [id |-> 2, price |-> 45,  tags |-> <<"history", "culture", "walking">>],
       [id |-> 3, price |-> 250, tags |-> <<"animals", "adventure", "photography">>],
       [id |-> 4, price |-> 80,  tags |-> <<"beach", "surfing", "young-vibe">>],
       [id |-> 5, price |-> 110, tags |-> <<"history", "climbing", "view">> ] >>

VALID_IDS == {travelPackages[i].id : i \in DOMAIN travelPackages}

\* the id -> item index, a Map: get(id) is undefined for an id outside its domain
packageById ==
    [id \in VALID_IDS |->
        travelPackages[CHOOSE i \in DOMAIN travelPackages : travelPackages[i].id = id]]

InSeq(x, seq) == \E i \in DOMAIN seq : seq[i] = x

\* Array.prototype.join
RECURSIVE join(_, _)
join(seq, sep) ==
    IF Len(seq) = 0 THEN ""
    ELSE IF Len(seq) = 1 THEN seq[1]
    ELSE seq[1] \o sep \o join(Tail(seq), sep)

\* ------------------------------------------------------------------------
\* Rate limiter
\* ------------------------------------------------------------------------
\* a limiter that denies only above the limit (count > maxRequests): the variant
\* the rate-limit property C1 tells from the code
isRateLimitedAboveLimit(ip, t, m) ==
    IF ip \notin DOMAIN m \/ t > m[ip].resetAt
    THEN [limited |-> FALSE,
          map |-> [k \in DOMAIN m \cup {ip} |->
                      IF k = ip THEN [count |-> 1, resetAt |-> t + windowMs] ELSE m[k]]]
    ELSE IF m[ip].count > maxRequests
    THEN [limited |-> TRUE, map |-> m]
    ELSE [limited |-> FALSE,
          map |-> [m EXCEPT ![ip].count = m[ip].count + 1]]

\* a limiter that counts and never denies: the variant the window property C17
\* tells from the code
isRateLimitedCounting(ip, t, m) ==
    IF ip \notin DOMAIN m \/ t > m[ip].resetAt
    THEN [limited |-> FALSE,
          map |-> [k \in DOMAIN m \cup {ip} |->
                      IF k = ip THEN [count |-> 1, resetAt |-> t + windowMs] ELSE m[k]]]
    ELSE [limited |-> FALSE,
          map |-> [m EXCEPT ![ip].count = m[ip].count + 1]]

\* a limiter that counts only the request opening the window: the variant the
\* quota property C18 tells from the code
isRateLimitedFirstOnly(ip, t, m) ==
    IF ip \notin DOMAIN m \/ t > m[ip].resetAt
    THEN [limited |-> FALSE,
          map |-> [k \in DOMAIN m \cup {ip} |->
                      IF k = ip THEN [count |-> 1, resetAt |-> t + windowMs] ELSE m[k]]]
    ELSE IF m[ip].count >= maxRequests
    THEN [limited |-> TRUE, map |-> m]
    ELSE [limited |-> FALSE, map |-> m]

\* a limiter whose window is over at the instant resetAt already (t >= resetAt):
\* the variant the window-lifecycle property C22 tells from the code
isRateLimitedClosingEarly(ip, t, m) ==
    IF ip \notin DOMAIN m \/ t >= m[ip].resetAt
    THEN [limited |-> FALSE,
          map |-> [k \in DOMAIN m \cup {ip} |->
                      IF k = ip THEN [count |-> 1, resetAt |-> t + windowMs] ELSE m[k]]]
    ELSE IF m[ip].count >= maxRequests
    THEN [limited |-> TRUE, map |-> m]
    ELSE [limited |-> FALSE,
          map |-> [m EXCEPT ![ip].count = m[ip].count + 1]]

\* a limiter that restarts the window of a client it denies: the variant the
\* frame property C30 tells from the code
isRateLimitedPenalizing(ip, t, m) ==
    IF ip \notin DOMAIN m \/ t > m[ip].resetAt
    THEN [limited |-> FALSE,
          map |-> [k \in DOMAIN m \cup {ip} |->
                      IF k = ip THEN [count |-> 1, resetAt |-> t + windowMs] ELSE m[k]]]
    ELSE IF m[ip].count >= maxRequests
    THEN [limited |-> TRUE, map |-> [m EXCEPT ![ip].resetAt = t + windowMs]]
    ELSE [limited |-> FALSE,
          map |-> [m EXCEPT ![ip].count = m[ip].count + 1]]

\* isRateLimited(ip) at time t on map m: the boolean returned and the map left
isRateLimited(ip, t, m) ==
    IF ip \notin DOMAIN m \/ t > m[ip].resetAt
    THEN [limited |-> FALSE,
          map |-> [k \in DOMAIN m \cup {ip} |->
                      IF k = ip THEN [count |-> 1, resetAt |-> t + windowMs] ELSE m[k]]]
    ELSE IF m[ip].count >= maxRequests
    THEN [limited |-> TRUE, map |-> m]
    ELSE [limited |-> FALSE,
          map |-> [m EXCEPT ![ip].count = m[ip].count + 1]]

\* ------------------------------------------------------------------------
\* Prompt cache: a function from keys to entries, defined on the keys stored
\* ------------------------------------------------------------------------
CacheKey(query) == trim(toLowerCase(query))

NoData == [matches |-> <<>>]

\* a lookup that takes an entry for expired at the instant expiresAt already
\* (t >= expiresAt): the variant the idempotence property C3 tells from the code
getCachedExpiringEarly(query, t, c) ==
    LET key == CacheKey(query) IN
    IF key \notin DOMAIN c THEN [hit |-> FALSE, data |-> NoData, cache |-> c]
    ELSE IF t >= c[key].expiresAt
    THEN [hit |-> FALSE, data |-> NoData, cache |-> [k \in DOMAIN c \ {key} |-> c[k]]]
    ELSE [hit |-> TRUE, data |-> c[key].data, cache |-> c]

\* a lookup that renews the entry it returns (a sliding expiry): the variant the
\* expiry property C23 tells from the code
getCachedRefreshing(query, t, c) ==
    LET key == CacheKey(query) IN
    IF key \notin DOMAIN c THEN [hit |-> FALSE, data |-> NoData, cache |-> c]
    ELSE IF t > c[key].expiresAt
    THEN [hit |-> FALSE, data |-> NoData, cache |-> [k \in DOMAIN c \ {key} |-> c[k]]]
    ELSE [hit |-> TRUE, data |-> c[key].data,
          cache |-> [c EXCEPT ![key].expiresAt = t + CACHE_TTL_MS]]

\* getCached(query) at time t on cache c: whether data is returned (hit), the data,
\* and the cache left (an expired entry is deleted)
getCached(query, t, c) ==
    LET key == CacheKey(query) IN
    IF key \notin DOMAIN c THEN [hit |-> FALSE, data |-> NoData, cache |-> c]
    ELSE IF t > c[key].expiresAt
    THEN [hit |-> FALSE, data |-> NoData, cache |-> [k \in DOMAIN c \ {key} |-> c[k]]]
    ELSE [hit |-> TRUE, data |-> c[key].data, cache |-> c]

\* a write that keeps the entry already stored under the key (first write wins):
\* the variant the duplicate-work property C24 tells from the code
setCacheKeepingFirst(query, data, t, c) ==
    LET key == CacheKey(query) IN
    [k \in DOMAIN c \cup {key} |->
        IF k = key /\ key \notin DOMAIN c
        THEN [data |-> data, expiresAt |-> t + CACHE_TTL_MS] ELSE c[k]]

\* setCache(query, data) at time t on cache c: the cache left
setCache(query, data, t, c) ==
    LET key == CacheKey(query) IN
    [k \in DOMAIN c \cup {key} |->
        IF k = key THEN [data |-> data, expiresAt |-> t + CACHE_TTL_MS] ELSE c[k]]

\* ------------------------------------------------------------------------
\* Keyword shortcut
\* ------------------------------------------------------------------------
\* a keyword map in which 'beach' names a tag no inventory item carries: the
\* variant the cache-content property C29 tells from the code
TAG_KEYWORD_MAP_Stale ==
    [k \in {"beaches", "beach", "nature", "culture", "adventure", "hiking", "surfing",
            "history", "wildlife", "safari", "photography", "climbing", "walking"} |->
        CASE k = "culture" -> <<"culture", "history">>
          [] k = "history" -> <<"history", "culture">>
          [] k = "wildlife" -> <<"animals">>
          [] k = "safari" -> <<"animals">>
          [] k = "beach" -> <<"beaches">>
          [] k = "beaches" -> <<"beach">>
          [] OTHER -> <<k>>]

TAG_KEYWORD_MAP ==
    [k \in {"beaches", "beach", "nature", "culture", "adventure", "hiking", "surfing",
            "history", "wildlife", "safari", "photography", "climbing", "walking"} |->
        CASE k = "beaches" -> <<"beach">>
          [] k = "beach" -> <<"beach">>
          [] k = "nature" -> <<"nature">>
          [] k = "culture" -> <<"culture", "history">>
          [] k = "adventure" -> <<"adventure">>
          [] k = "hiking" -> <<"hiking">>
          [] k = "surfing" -> <<"surfing">>
          [] k = "history" -> <<"history", "culture">>
          [] k = "wildlife" -> <<"animals">>
          [] k = "safari" -> <<"animals">>
          [] k = "photography" -> <<"photography">>
          [] k = "climbing" -> <<"climbing">>
          [] k = "walking" -> <<"walking">>]

\* TAG_KEYWORD_MAP is a plain object: an index that is no own key but a property
\* of Object.prototype yields that property, a truthy value without .includes
ObjectPrototypeKeys == {"constructor", "__proto__"}

\* a scan that returns at the first item matched: the variant the round-trip
\* property C12 tells from the code
RECURSIVE KeywordScanFirst(_, _)
KeywordScanFirst(pkgs, tags) ==
    IF Len(pkgs) = 0 THEN <<>>
    ELSE LET pkg == Head(pkgs)
             overlap == SelectSeq(pkg.tags, LAMBDA t : InSeq(t, tags))
         IN IF Len(overlap) > 0
            THEN << [id |-> pkg.id,
                     reason |-> "Matched '" \o join(overlap, "', '") \o "' tag"
                                \o (IF Len(overlap) > 1 THEN "s" ELSE "") \o "."] >>
            ELSE KeywordScanFirst(Tail(pkgs), tags)

\* a scan that goes through the items from the last to the first: the variant the
\* shortcut-order property C27 tells from the code
RECURSIVE KeywordScanBackwards(_, _)
KeywordScanBackwards(pkgs, tags) ==
    IF Len(pkgs) = 0 THEN <<>>
    ELSE LET pkg == Head(pkgs)
             overlap == SelectSeq(pkg.tags, LAMBDA t : InSeq(t, tags))
         IN KeywordScanBackwards(Tail(pkgs), tags)
            \o (IF Len(overlap) > 0
                THEN << [id |-> pkg.id,
                         reason |-> "Matched '" \o join(overlap, "', '") \o "' tag"
                                    \o (IF Len(overlap) > 1 THEN "s" ELSE "") \o "."] >>
                ELSE <<>>)

\* the matches pushed for the items of pkgs, in order
RECURSIVE KeywordScan(_, _)
KeywordScan(pkgs, tags) ==
    IF Len(pkgs) = 0 THEN <<>>
    ELSE LET pkg == Head(pkgs)
             overlap == SelectSeq(pkg.tags, LAMBDA t : InSeq(t, tags))
         IN (IF Len(overlap) > 0
             THEN << [id |-> pkg.id,
                      reason |-> "Matched '" \o join(overlap, "', '") \o "' tag"
                                 \o (IF Len(overlap) > 1 THEN "s" ELSE "") \o "."] >>
             ELSE <<>>)
            \o KeywordScan(Tail(pkgs), tags)

\* a keyword lookup on the query as typed, neither lowercased nor trimmed: the
\* variant the keyword-shortcut property C10 tells from the code
tryKeywordMatchAsTyped(query) ==
    IF query \in DOMAIN TAG_KEYWORD_MAP
    THEN [kind |-> "matches", matches |-> KeywordScan(travelPackages, TAG_KEYWORD_MAP[query])]
    ELSE IF query \in ObjectPrototypeKeys
    THEN [kind |-> "throws", matches |-> <<>>]
    ELSE [kind |-> "null", matches |-> <<>>]

\* tryKeywordMatch(query): [kind |-> "null"], [kind |-> "matches", matches |-> ..]
\* or [kind |-> "throws"] (TypeError: tags.includes is not a function)
tryKeywordMatch(query) ==
    LET lower == trim(toLowerCase(query)) IN
    IF lower \in DOMAIN TAG_KEYWORD_MAP
    THEN [kind |-> "matches", matches |-> KeywordScan(travelPackages, TAG_KEYWORD_MAP[lower])]
    ELSE IF lower \in ObjectPrototypeKeys
    THEN [kind |-> "throws", matches |-> <<>>]
    ELSE [kind |-> "null", matches |-> <<>>]

\* ------------------------------------------------------------------------
\* JSON values, as far as the schemas look at them
\* ------------------------------------------------------------------------
JNull == [type |-> "null"]
JUndefined == [type |-> "undefined"]
JStr(s) == [type |-> "string", value |-> s]
\* a number: an integer n, or (int = FALSE) a number with a fractional part, n + 0.5
JNum(n) == [type |-> "number", int |-> TRUE, value |-> n]
JFrac(n) == [type |-> "number", int |-> FALSE, value |-> n]
JArr(items) == [type |-> "array", items |-> items]
JMatch(id, reason) == [type |-> "object", id |-> id, reason |-> reason]
JMatches(m) == [type |-> "object", matches |-> m]
JBody(q) == [type |-> "object", query |-> q]
\* the collaborator's text: JSON text of a value, or text JSON.parse throws on
NotJson == [json |-> FALSE, value |-> JNull]

\* ------------------------------------------------------------------------
\* zod schemas
\* ------------------------------------------------------------------------
MsgEmpty == "Please describe the kind of trip you're looking for."
MsgTooLong == "Query must be " \o ToString(MAX_QUERY_LENGTH) \o " characters or fewer."
\* the message zod itself gives an issue of the wrong type
MsgZodType == "zod: invalid type"

\* a request schema that refuses a query of MAX_QUERY_LENGTH characters already:
\* the variant the validation property C4 tells from the code
RequestSchemaShort(body) ==
    IF body.type # "object" \/ body.query.type # "string"
    THEN [success |-> FALSE, message |-> MsgZodType, query |-> ""]
    ELSE LET q == trim(body.query.value) IN
         IF Len(q) < 1 THEN [success |-> FALSE, message |-> MsgEmpty, query |-> ""]
         ELSE IF Len(q) >= MAX_QUERY_LENGTH
         THEN [success |-> FALSE, message |-> MsgTooLong, query |-> ""]
         ELSE [success |-> TRUE, message |-> "", query |-> q]

\* RequestSchema.safeParse(body)
RequestSchema(body) ==
    IF body.type # "object" \/ body.query.type # "string"
    THEN [success |-> FALSE, message |-> MsgZodType, query |-> ""]
    ELSE LET q == trim(body.query.value) IN
         IF Len(q) < 1 THEN [success |-> FALSE, message |-> MsgEmpty, query |-> ""]
         ELSE IF Len(q) > MAX_QUERY_LENGTH
         THEN [success |-> FALSE, message |-> MsgTooLong, query |-> ""]
         ELSE [success |-> TRUE, message |-> "", query |-> q]

\* a match schema without the refinement of the id to VALID_IDS: the variant the
\* whole-reply rejection property C6 tells from the code
MatchSchemaAnyId(m) ==
    /\ m.type = "object"
    /\ m.id.type = "number"
    /\ m.id.int
    /\ m.reason.type = "string"
    /\ Len(m.reason.value) >= 1
    /\ Len(m.reason.value) <= MaxReasonLen

\* MatchSchema accepts m
MatchSchema(m) ==
    /\ m.type = "object"
    /\ m.id.type = "number"
    /\ m.id.int
    /\ m.id.value \in VALID_IDS
    /\ m.reason.type = "string"
    /\ Len(m.reason.value) >= 1
    /\ Len(m.reason.value) <= MaxReasonLen

\* a response schema that lets one match more through (max MaxMatches + 1): the
\* variant the response-size property C5 tells from the code
AIResponseSchemaWider(json) ==
    IF /\ json.type = "object"
       /\ json.matches.type = "array"
       /\ \A i \in DOMAIN json.matches.items : MatchSchema(json.matches.items[i])
       /\ Len(json.matches.items) <= MaxMatches + 1
    THEN [success |-> TRUE,
          matches |-> [i \in DOMAIN json.matches.items |->
                          [id |-> json.matches.items[i].id.value,
                           reason |-> json.matches.items[i].reason.value]]]
    ELSE [success |-> FALSE, matches |-> <<>>]

\* AIResponseSchema.safeParse(json): success, and the data (unknown keys stripped)
AIResponseSchema(json) ==
    IF /\ json.type = "object"
       /\ json.matches.type = "array"
       /\ \A i \in DOMAIN json.matches.items : MatchSchema(json.matches.items[i])
       /\ Len(json.matches.items) <= MaxMatches
    THEN [success |-> TRUE,
          matches |-> [i \in DOMAIN json.matches.items |->
                          [id |-> json.matches.items[i].id.value,
                           reason |-> json.matches.items[i].reason.value]]]
    ELSE [success |-> FALSE, matches |-> <<>>]

\* ------------------------------------------------------------------------
\* Budget parsing
\* ------------------------------------------------------------------------
Null == [some |-> FALSE, v |-> 0]
Some(n) == [some |-> TRUE, v |-> n]

\* \s*\$?\s*(\d+) from position p: the digits captured, or "" when it does not match
BudgetTail(s, p) ==
    LET q == SkipSpaces(s, p)
        r == IF HasAt(s, q, "$") THEN SkipSpaces(s, q + 1) ELSE q
    IN SubSeq(s, r, SkipDigits(s, r) - 1)

\* the positions after (?:under|below|less\s+than|within|up\s+to|max(?:imum)?)
\* matched at i, in the order the regular expression tries them
ExplicitPrefixEnds(s, i) ==
    LET one(w) == IF HasAt(s, i, w) THEN <<i + Len(w)>> ELSE <<>>
        two(a, b) ==
            LET j == SkipSpaces(s, i + Len(a)) IN
            IF HasAt(s, i, a) /\ j > i + Len(a) /\ HasAt(s, j, b)
            THEN <<j + Len(b)>> ELSE <<>>
    IN one("under") \o one("below") \o two("less", "than") \o one("within")
       \o two("up", "to") \o one("maximum") \o one("max")

\* the capture of the explicit pattern matched at position i, or ""
ExplicitAt(s, i) ==
    LET ends == SelectSeq(ExplicitPrefixEnds(s, i), LAMBDA e : BudgetTail(s, e) # "")
    IN IF Len(ends) = 0 THEN "" ELSE BudgetTail(s, ends[1])

\* the capture of \$\s*(\d+)\s*(?:or\s+(?:less|under|below)|max(?:imum)?) at i, or ""
SuffixAt(s, i) ==
    LET q == SkipSpaces(s, i + 1)
        e == SkipDigits(s, q)
        r == SkipSpaces(s, e)
        o == SkipSpaces(s, r + 2)
    IN IF /\ HasAt(s, i, "$")
          /\ e > q
          /\ \/ HasAt(s, r, "max")
             \/ /\ HasAt(s, r, "or")
                /\ o > r + 2
                /\ (HasAt(s, o, "less") \/ HasAt(s, o, "under") \/ HasAt(s, o, "below"))
       THEN SubSeq(s, q, e - 1)
       ELSE ""

\* \b at position i of s: between s[i-1] and s[i], exactly one is a word character
WordBoundary(s, i) ==
    LET before == i > 1 /\ i - 1 <= Len(s) /\ IsWordChar(Char(s, i - 1))
        after == i >= 1 /\ i <= Len(s) /\ IsWordChar(Char(s, i))
    IN before # after

\* \b(w1|w2|...)\b matches somewhere in s
HasWord(s, words) ==
    \E w \in words : \E i \in 1..Len(s) :
        HasAt(s, i, w) /\ WordBoundary(s, i) /\ WordBoundary(s, i + Len(w))

CheapWords == {"cheap", "budget", "affordable", "lowcost", "low-cost", "low cost", "inexpensive"}
ExpensiveWords == {"expensive", "luxury", "luxurious", "premium", "highend", "high-end",
                   "high end", "splurge"}

\* extractBudget(query): the ceiling, or Null
extractBudget(query) ==
    LET lower == toLowerCase(query)
        explicit == {i \in 1..Len(lower) : ExplicitAt(lower, i) # ""}
        suffix == {i \in 1..Len(lower) : SuffixAt(lower, i) # ""}
    IN IF explicit # {} THEN Some(parseInt(ExplicitAt(lower, Min(explicit))))
       ELSE IF suffix # {} THEN Some(parseInt(SuffixAt(lower, Min(suffix))))
       ELSE IF HasWord(lower, CheapWords) THEN Some(CheapCeiling)
       ELSE Null

\* wantsExpensive(query): the floor, or Null
wantsExpensive(query) ==
    LET lower == toLowerCase(query) IN
    IF HasWord(lower, ExpensiveWords) THEN Some(ExpensiveFloor) ELSE Null

\* ------------------------------------------------------------------------
\* Responses of the POST handler.  NextResponse.json(body, {status}); the
\* typographic apostrophe and dash of two messages are written in ASCII.
\* ------------------------------------------------------------------------
MsgTooMany == "Too many requests. Please wait a moment and try again."
MsgConfig == "Server configuration error - the AI service isn't set up yet."
MsgVendorLimit == "You are searching too fast! Please wait 60 seconds and try again."
MsgTimeout == "The AI took too long to respond. Please try a simpler query."
MsgUnreachable == "Could not reach the AI service right now. Please try again shortly."
MsgNonJson == "The AI returned something unexpected. Please try rephrasing your query."
MsgFormat == "The AI response didn't match our expected format. Please try again."
MsgUnexpected == "Something unexpected went wrong. Please try again."
MsgConflict == "Your request combines things that don't overlap in our collection. Try focusing on one vibe or activity."

NoResp == [status |-> 0, body |-> [error |-> ""]]
Err(status, message) == [status |-> status, body |-> [error |-> message]]
Ok(data) == [status |-> 200, body |-> data]

\* ------------------------------------------------------------------------
\* Steps 5 and 8: the budget filter applied to a list of matches
\* ------------------------------------------------------------------------
\* a filter that trusts the list it is given: the variant the budget property C2
\* tells from the code
BudgetFilterTrusting(matches, query) == matches

\* a filter that applies the ceiling and the floor together: the variant the
\* exclusivity property C25 tells from the code
BudgetFilterBoth(matches, query) ==
    LET budgetCeiling == extractBudget(query)
        budgetFloor == wantsExpensive(query)
    IN SelectSeq(matches, LAMBDA m :
           /\ budgetCeiling.some
                 => (m.id \in DOMAIN packageById /\ packageById[m.id].price <= budgetCeiling.v)
           /\ budgetFloor.some
                 => (m.id \in DOMAIN packageById /\ packageById[m.id].price >= budgetFloor.v))

BudgetFilter(matches, query) ==
    LET budgetCeiling == extractBudget(query)
        budgetFloor == wantsExpensive(query)
    IN IF budgetCeiling.some
       THEN SelectSeq(matches, LAMBDA m :
                m.id \in DOMAIN packageById /\ packageById[m.id].price <= budgetCeiling.v)
       ELSE IF budgetFloor.some
       THEN SelectSeq(matches, LAMBDA m :
                m.id \in DOMAIN packageById /\ packageById[m.id].price >= budgetFloor.v)
       ELSE matches

\* ------------------------------------------------------------------------
\* Step 9: the hint of an empty result, "" when there is none
\* ------------------------------------------------------------------------
conflictPairs ==
    << << <<"beach", "surf", "coast", "ocean">>, <<"cold", "mountain", "snow", "highland">> >>,
       << <<"surfing", "diving", "snorkel">>, <<"climbing", "hiking", "trek">> >> >>

\* a hint synthesis that looks for a conflict before it looks at the budget: the
\* variant the hint decision table C14 tells from the code
HintConflictFirst(query) ==
    LET budgetCeiling == extractBudget(query)
        budgetFloor == wantsExpensive(query)
        withinBudget == {i \in DOMAIN travelPackages :
                            travelPackages[i].price <= budgetCeiling.v}
        aboveFloor == {i \in DOMAIN travelPackages :
                            travelPackages[i].price >= budgetFloor.v}
        cheapest == Min({travelPackages[i].price : i \in DOMAIN travelPackages})
        lower == toLowerCase(query)
        n == Cardinality(withinBudget)
    IN IF \E p \in DOMAIN conflictPairs :
             /\ \E a \in DOMAIN conflictPairs[p][1] : includes(lower, conflictPairs[p][1][a])
             /\ \E b \in DOMAIN conflictPairs[p][2] : includes(lower, conflictPairs[p][2][b])
       THEN MsgConflict
       ELSE IF budgetCeiling.some
       THEN IF n = 0
            THEN "No experiences fit a $" \o ToString(budgetCeiling.v)
                 \o " budget. Our most affordable option starts at $" \o ToString(cheapest)
                 \o ". Try increasing your budget."
            ELSE "No experiences match all your criteria within $" \o ToString(budgetCeiling.v)
                 \o ". " \o ToString(n) \o " option" \o (IF n > 1 THEN "s" ELSE "")
                 \o " exist" \o (IF n = 1 THEN "s" ELSE "")
                 \o " in that price range - try broadening your interests."
       ELSE IF budgetFloor.some
       THEN IF aboveFloor = {}
            THEN "No experiences are priced at $" \o ToString(budgetFloor.v)
                 \o "+. Try lowering your expectations or exploring mid-range options."
            ELSE "No experiences match your criteria at the $" \o ToString(budgetFloor.v)
                 \o "+ price point. Try broadening your interests."
       ELSE ""

Hint(query) ==
    LET budgetCeiling == extractBudget(query)
        budgetFloor == wantsExpensive(query)
        withinBudget == {i \in DOMAIN travelPackages :
                            travelPackages[i].price <= budgetCeiling.v}
        aboveFloor == {i \in DOMAIN travelPackages :
                            travelPackages[i].price >= budgetFloor.v}
        cheapest == Min({travelPackages[i].price : i \in DOMAIN travelPackages})
        lower == toLowerCase(query)
        n == Cardinality(withinBudget)
    IN IF budgetCeiling.some
       THEN IF n = 0
            THEN "No experiences fit a $" \o ToString(budgetCeiling.v)
                 \o " budget. Our most affordable option starts at $" \o ToString(cheapest)
                 \o ". Try increasing your budget."
            ELSE "No experiences match all your criteria within $" \o ToString(budgetCeiling.v)
                 \o ". " \o ToString(n) \o " option" \o (IF n > 1 THEN "s" ELSE "")
                 \o " exist" \o (IF n = 1 THEN "s" ELSE "")
                 \o " in that price range - try broadening your interests."
       ELSE IF budgetFloor.some
       THEN IF aboveFloor = {}
            THEN "No experiences are priced at $" \o ToString(budgetFloor.v)
                 \o "+. Try lowering your expectations or exploring mid-range options."
            ELSE "No experiences match your criteria at the $" \o ToString(budgetFloor.v)
                 \o "+ price point. Try broadening your interests."
       ELSE IF \E p \in DOMAIN conflictPairs :
                  /\ \E a \in DOMAIN conflictPairs[p][1] : includes(lower, conflictPairs[p][1][a])
                  /\ \E b \in DOMAIN conflictPairs[p][2] : includes(lower, conflictPairs[p][2][b])
       THEN MsgConflict
       ELSE ""

\* ------------------------------------------------------------------------
\* The POST handler, one operator per synchronous segment.  Each gives the
\* shared state it leaves, where the handler stands (pc) and its response,
\* and lists in ops the operations the segment performed.
\* ------------------------------------------------------------------------

\* a handler that reads the body before it looks at the credential: the variant
\* the credential-first property C28 tells from the code
PostStartBodyFirst(ip, t, m, key) ==
    LET rl == isRateLimited(ip, t, m) IN
    IF rl.limited
    THEN [map |-> rl.map, pc |-> "done", resp |-> Err(429, MsgTooMany),
          ops |-> <<"isRateLimited">>]
    ELSE [map |-> rl.map, pc |-> "body", resp |-> NoResp,
          ops |-> <<"isRateLimited", "apiKey", "req.json">>]

\* Steps 1-2: from the call to the await of req.json()
PostStart(ip, t, m, key) ==
    LET rl == isRateLimited(ip, t, m) IN
    IF rl.limited
    THEN [map |-> rl.map, pc |-> "done", resp |-> Err(429, MsgTooMany),
          ops |-> <<"isRateLimited">>]
    ELSE IF ~key
    THEN [map |-> rl.map, pc |-> "done", resp |-> Err(500, MsgConfig),
          ops |-> <<"isRateLimited", "apiKey">>]
    ELSE [map |-> rl.map, pc |-> "body", resp |-> NoResp,
          ops |-> <<"isRateLimited", "apiKey", "req.json">>]

\* Steps 3-6: from the body to the await of Promise.race
PostBody(body, t, c) ==
    LET parsed == RequestSchema(body) IN
    IF ~parsed.success
    THEN [cache |-> c, pc |-> "done", resp |-> Err(400, parsed.message), query |-> "",
          ops |-> <<"RequestSchema">>]
    ELSE
    LET userQuery == parsed.query
        cached == getCached(userQuery, t, c)
    IN
    IF cached.hit
    THEN [cache |-> cached.cache, pc |-> "done", resp |-> Ok(cached.data), query |-> userQuery,
          ops |-> <<"RequestSchema", "getCached">>]
    ELSE
    LET keywordResult == tryKeywordMatch(userQuery) IN
    IF keywordResult.kind = "throws"
    THEN [cache |-> cached.cache, pc |-> "done", resp |-> Err(500, MsgUnexpected),
          query |-> userQuery,
          ops |-> <<"RequestSchema", "getCached", "tryKeywordMatch", "catch">>]
    ELSE IF keywordResult.kind = "matches"
    THEN LET response == [matches |-> BudgetFilter(keywordResult.matches, userQuery)] IN
         [cache |-> setCache(userQuery, response, t, cached.cache), pc |-> "done",
          resp |-> Ok(response), query |-> userQuery,
          ops |-> <<"RequestSchema", "getCached", "tryKeywordMatch", "setCache">>]
    ELSE [cache |-> cached.cache, pc |-> "llm", resp |-> NoResp, query |-> userQuery,
          ops |-> <<"RequestSchema", "getCached", "tryKeywordMatch", "generateContent",
                    "setTimeout">>]

\* a catch that passes the error's own message on for a generic failure: the
\* variant the failure classification C15 tells from the code
PostCatchDetail(err) ==
    LET isTimeout == err.name = "AbortError"
        isRateLimit == includes(err.message, "429")
    IN IF isRateLimit THEN Err(429, MsgVendorLimit)
       ELSE Err(502, IF isTimeout THEN MsgTimeout ELSE err.message)

\* a catch that answers a generic collaborator failure with 503: the variant the
\* response-shape property C16 tells from the code
PostCatchUnavailable(err) ==
    LET isTimeout == err.name = "AbortError"
        isRateLimit == includes(err.message, "429")
    IN IF isRateLimit THEN Err(429, MsgVendorLimit)
       ELSE IF isTimeout THEN Err(502, MsgTimeout) ELSE Err(503, MsgUnreachable)

\* the catch of step 6, for the error err that settled Promise.race
PostCatch(err) ==
    LET isTimeout == err.name = "AbortError"
        isRateLimit == includes(err.message, "429")
    IN IF isRateLimit THEN Err(429, MsgVendorLimit)
       ELSE Err(502, IF isTimeout THEN MsgTimeout ELSE MsgUnreachable)

\* a failure path that stores an empty result for the query: the variant the
\* failures-are-not-cached property C9 tells from the code
ReplyFailureStored(userQuery, message, ops, t, c) ==
    [cache |-> setCache(userQuery, NoData, t, c), resp |-> Err(502, message),
     ops |-> ops \o <<"setCache">>]

\* Step 7, a reply that is no JSON or fails the schema: 502, the cache is left
ReplyFailure(userQuery, message, ops, t, c) ==
    [cache |-> c, resp |-> Err(502, message), ops |-> ops]

\* steps 8-10 with the empty result stored like the others: the variant the
\* empty-result property C8 tells from the code
RespondMatchesStoringEmpty(userQuery, matches, t, c) ==
    LET safeMatches == SelectSeq(matches, LAMBDA m : m.id \in VALID_IDS)
        filteredMatches == BudgetFilter(safeMatches, userQuery)
        hint == Hint(userQuery)
        data == IF Len(filteredMatches) = 0 /\ hint # ""
                THEN [matches |-> <<>>, hint |-> hint]
                ELSE [matches |-> filteredMatches]
    IN [cache |-> setCache(userQuery, data, t, c),
        resp |-> Ok(data),
        ops |-> <<"clearTimeout", "JSON.parse", "AIResponseSchema", "setCache">>]

\* steps 8-10 with the hint computed for every result and attached whenever there
\* is one: the variant the hint-presence property C13 tells from the code
RespondMatchesHinting(userQuery, matches, t, c) ==
    LET safeMatches == SelectSeq(matches, LAMBDA m : m.id \in VALID_IDS)
        filteredMatches == BudgetFilter(safeMatches, userQuery)
        hint == Hint(userQuery)
        data == IF hint # "" THEN [matches |-> filteredMatches, hint |-> hint]
                ELSE [matches |-> filteredMatches]
    IN
    IF Len(filteredMatches) = 0
    THEN [cache |-> c, resp |-> Ok(data),
          ops |-> <<"clearTimeout", "JSON.parse", "AIResponseSchema">>]
    ELSE [cache |-> setCache(userQuery, data, t, c), resp |-> Ok(data),
          ops |-> <<"clearTimeout", "JSON.parse", "AIResponseSchema", "setCache">>]

\* steps 8-10 with the kept matches put in inventory order: the variant the order
\* property C26 tells from the code
RespondMatchesInventoryOrder(userQuery, matches, t, c) ==
    LET safeMatches == SelectSeq(matches, LAMBDA m : m.id \in VALID_IDS)
        kept == BudgetFilter(safeMatches, userQuery)
        pick(i) == SelectSeq(kept, LAMBDA m : m.id = travelPackages[i].id)
        filteredMatches == pick(1) \o pick(2) \o pick(3) \o pick(4) \o pick(5)
        hint == Hint(userQuery)
    IN
    IF Len(filteredMatches) = 0
    THEN [cache |-> c,
          resp |-> Ok(IF hint # "" THEN [matches |-> <<>>, hint |-> hint]
                      ELSE [matches |-> <<>>]),
          ops |-> <<"clearTimeout", "JSON.parse", "AIResponseSchema">>]
    ELSE [cache |-> setCache(userQuery, [matches |-> filteredMatches], t, c),
          resp |-> Ok([matches |-> filteredMatches]),
          ops |-> <<"clearTimeout", "JSON.parse", "AIResponseSchema", "setCache">>]

\* Steps 8-10: from the validated matches to the response
RespondMatches(userQuery, matches, t, c) ==
    LET safeMatches == SelectSeq(matches, LAMBDA m : m.id \in VALID_IDS)
        filteredMatches == BudgetFilter(safeMatches, userQuery)
        hint == Hint(userQuery)
    IN
    IF Len(filteredMatches) = 0
    THEN [cache |-> c,
          resp |-> Ok(IF hint # "" THEN [matches |-> <<>>, hint |-> hint]
                      ELSE [matches |-> <<>>]),
          ops |-> <<"clearTimeout", "JSON.parse", "AIResponseSchema">>]
    ELSE [cache |-> setCache(userQuery, [matches |-> filteredMatches], t, c),
          resp |-> Ok([matches |-> filteredMatches]),
          ops |-> <<"clearTimeout", "JSON.parse", "AIResponseSchema", "setCache">>]

\* Steps 7-10: from the collaborator's text to the response
PostReply(userQuery, reply, t, c) ==
    IF ~reply.json
    THEN ReplyFailure(userQuery, MsgNonJson, <<"clearTimeout", "JSON.parse">>, t, c)
    ELSE
    LET validated == AIResponseSchema(reply.value) IN
    IF ~validated.success
    THEN ReplyFailure(userQuery, MsgFormat,
                      <<"clearTimeout", "JSON.parse", "AIResponseSchema">>, t, c)
    ELSE RespondMatches(userQuery, validated.matches, t, c)

\* a handler that treats the late reply like one in time and stores it: the
\* variant the deadline property C7 tells from the code
PostLateStores(userQuery, reply, t, c) == PostReply(userQuery, reply, t, c).cache

\* what the handler does when generateContent settles after Promise.race was
\* already settled by the timer: no continuation is attached, the cache is left
PostLate(userQuery, reply, t, c) == c

\* ------------------------------------------------------------------------
\* State
\* ------------------------------------------------------------------------
VARIABLES
    now,            \* Date.now()
    apiKey,         \* process.env.GEMINI_API_KEY is set
    rateLimitMap,   \* ip -> [count, resetAt], on the ips stored
    promptCache,    \* key -> [data, expiresAt], on the keys stored
    req,            \* slot -> the request handled there
    arrivals,       \* requests arrived so far
    ticks,          \* clock advances so far
    envChanges,     \* changes of the environment so far
    admits,         \* history: ip -> its requests admitted since its window was opened
    admitLog,       \* history: ip -> the arrival times of its requests admitted
    cacheWriter     \* history: key -> the request that wrote the entry stored

vars == <<now, apiKey, rateLimitMap, promptCache, req, arrivals, ticks, envChanges,
          admits, admitLog, cacheWriter>>

Slots == 1..MaxInFlight

NoHeader == "(no x-forwarded-for)"
Headers == {NoHeader, "10.0.0.1"}
\* req.headers.get("x-forwarded-for") ?? "unknown"
ClientIp(hdr) == IF hdr = NoHeader THEN "unknown" ELSE hdr
Clients == {ClientIp(h) : h \in Headers}

TimerError == [name |-> "AbortError", message |-> "LLM request timed out"]
\* no error was caught
NoError == [name |-> "", message |-> ""]

Idle ==
    [pc |-> "idle", id |-> 0, ip |-> "", body |-> JNull, query |-> "",
     timer |-> "none", timerAt |-> 0, llm |-> "none", reply |-> NotJson, err |-> NoError,
     ops |-> <<>>,
     resp |-> NoResp,
     prev |-> 0, priorAdmits |-> 0, tArrive |-> 0, tBody |-> 0, seenWriter |-> 0,
     servedWriter |-> 0, servedExp |-> 0, responses |-> 0,
     cancelled |-> FALSE, shown |-> FALSE, hdr |-> ""]

Init ==
    /\ now = 0
    /\ apiKey \in BOOLEAN
    /\ rateLimitMap = <<>>
    /\ promptCache = <<>>
    /\ req = [s \in Slots |-> Idle]
    /\ arrivals = 0
    /\ ticks = 0
    /\ envChanges = 0
    /\ admits = [ip \in Clients |-> 0]
    /\ admitLog = [ip \in Clients |-> <<>>]
    /\ cacheWriter = <<>>

\* history: the requests of ip admitted in its window, if that is open at time t
\* (a window is opened by an admitted request and stays open until its resetAt)
WindowAdmits(ip, t) ==
    IF ip \in DOMAIN rateLimitMap /\ t <= rateLimitMap[ip].resetAt THEN admits[ip] ELSE 0

WriterOf(w, key) == IF key \in DOMAIN w THEN w[key] ELSE 0

\* the writer history after a handler segment took the cache from c to c2
WriterAfter(c2, id, wrote, key) ==
    [k \in DOMAIN c2 |-> IF wrote /\ k = key THEN id ELSE cacheWriter[k]]

\* The slot a new request is handled in: an unused one, else the one whose request
\* finished longest ago (0 when every slot is busy).  A slot whose collaborator
\* call is still pending after a timeout is busy.
FreeSlots == {s \in Slots : req[s].pc \in {"idle", "done"} /\ req[s].llm # "pending"}
FreeSlot ==
    IF FreeSlots = {} THEN 0
    ELSE CHOOSE s \in FreeSlots : \A o \in FreeSlots :
            req[s].id < req[o].id \/ (req[s].id = req[o].id /\ s <= o)

\* performSearch of the client: the response of a fetch whose controller was
\* aborted is not rendered (the fetch rejects with AbortError, or signal.aborted is
\* seen after it), every other response is
ClientShows(cancelled) == ~cancelled

\* ------------------------------------------------------------------------
\* Actions
\* ------------------------------------------------------------------------

\* A request arrives in a free slot: POST runs to its first await or response
Arrive(s, hdr, body, max) ==
    /\ arrivals < max
    /\ s = FreeSlot
    /\ \E r \in {PostStart(ClientIp(hdr), now, rateLimitMap, apiKey)} :
       LET ip == ClientIp(hdr)
           others == {o \in Slots \ {s} : req[o].pc = "done"}
       IN /\ rateLimitMap' = r.map
          /\ admits' = IF r.resp.status = 429 THEN admits
                       ELSE [admits EXCEPT ![ip] = WindowAdmits(ip, now) + 1]
          /\ admitLog' = IF r.resp.status = 429 THEN admitLog
                         ELSE [admitLog EXCEPT ![ip] = Append(@, now)]
          /\ req' = [req EXCEPT ![s] =
                [Idle EXCEPT !.pc = r.pc, !.id = arrivals + 1, !.ip = ip, !.hdr = hdr,
                             !.body = body,
                             !.ops = r.ops, !.resp = r.resp,
                             !.prev = IF others = {} THEN 0
                                      ELSE req[CHOOSE o \in others : TRUE].id,
                             !.priorAdmits = WindowAdmits(ip, now),
                             !.tArrive = now,
                             !.responses = IF r.pc = "done" THEN 1 ELSE 0,
                             !.shown = (r.pc = "done")]]
    /\ arrivals' = arrivals + 1
    /\ UNCHANGED <<now, apiKey, promptCache, ticks, envChanges, cacheWriter>>

\* req.json() settles: validation, cache lookup, keyword shortcut, collaborator call
Body(s) ==
    /\ req[s].pc = "body"
    /\ \E r \in {PostBody(req[s].body, now, promptCache)} :
       LET key == CacheKey(r.query)
           wrote == InSeq("setCache", r.ops)
           hit == r.pc = "done" /\ r.resp.status = 200 /\ ~wrote
       IN /\ promptCache' = r.cache
          /\ cacheWriter' = WriterAfter(r.cache, req[s].id, wrote, key)
          /\ req' = [req EXCEPT ![s] =
                [@ EXCEPT !.pc = r.pc, !.query = r.query, !.ops = @ \o r.ops,
                          !.resp = r.resp,
                          !.timer = IF r.pc = "llm" THEN "armed" ELSE "none",
                          !.timerAt = IF r.pc = "llm" THEN now + LLM_TIMEOUT_MS ELSE 0,
                          !.llm = IF r.pc = "llm" THEN "pending" ELSE "none",
                          !.tBody = now,
                          !.seenWriter = WriterOf(cacheWriter, key),
                          !.servedWriter = IF wrote THEN req[s].id
                                           ELSE IF hit THEN WriterOf(cacheWriter, key)
                                           ELSE 0,
                          !.servedExp = IF wrote \/ hit THEN r.cache[key].expiresAt ELSE 0,
                          !.responses = IF r.pc = "done" THEN 1 ELSE 0,
                          !.shown = (r.pc = "done")]]
    /\ UNCHANGED <<now, apiKey, rateLimitMap, arrivals, ticks, envChanges, admits, admitLog>>

\* generateContent resolves before the timer fires
LlmResolve(s, reply) ==
    /\ req[s].pc = "llm"
    /\ \E r \in {PostReply(req[s].query, reply, now, promptCache)} :
       LET key == CacheKey(req[s].query)
           wrote == InSeq("setCache", r.ops)
       IN /\ promptCache' = r.cache
          /\ cacheWriter' = WriterAfter(r.cache, req[s].id, wrote, key)
          /\ req' = [req EXCEPT ![s] =
                [@ EXCEPT !.pc = "done", !.ops = @ \o r.ops, !.resp = r.resp,
                          !.timer = "cleared", !.llm = "settled", !.reply = reply,
                          !.servedWriter = IF wrote THEN req[s].id ELSE 0,
                          !.servedExp = IF wrote THEN r.cache[key].expiresAt ELSE 0,
                          !.responses = @ + 1,
                          !.shown = ClientShows(req[s].cancelled)]]
    /\ UNCHANGED <<now, apiKey, rateLimitMap, arrivals, ticks, envChanges, admits, admitLog>>

\* generateContent rejects before the timer fires
LlmReject(s, err) ==
    /\ req[s].pc = "llm"
    /\ req' = [req EXCEPT ![s] =
          [@ EXCEPT !.pc = "done", !.ops = @ \o <<"catch", "clearTimeout">>,
                    !.resp = PostCatch(err), !.timer = "cleared", !.llm = "settled",
                    !.err = err,
                    !.responses = @ + 1,
                    !.shown = ClientShows(req[s].cancelled)]]
    /\ UNCHANGED <<now, apiKey, rateLimitMap, promptCache, arrivals, ticks, envChanges,
                   admits, admitLog, cacheWriter>>

\* a handler that awaits generateContent alone: the timer callback runs but nothing
\* races it against the call.  The variant the bounded-response property C21 tells
\* from the code
TimerFiresUnraced(s) ==
    /\ req[s].pc = "llm"
    /\ req[s].timer = "armed"
    /\ now >= req[s].timerAt
    /\ req' = [req EXCEPT ![s] = [@ EXCEPT !.timer = "fired", !.err = TimerError]]
    /\ UNCHANGED <<now, apiKey, rateLimitMap, promptCache, arrivals, ticks, envChanges,
                   admits, admitLog, cacheWriter>>

\* the setTimeout callback runs (never before its delay) and rejects the race
TimerFires(s) ==
    /\ req[s].pc = "llm"
    /\ req[s].timer = "armed"
    /\ now >= req[s].timerAt
    /\ req' = [req EXCEPT ![s] =
          [@ EXCEPT !.pc = "done", !.ops = @ \o <<"timeout", "catch", "clearTimeout">>,
                    !.resp = PostCatch(TimerError), !.timer = "fired", !.err = TimerError,
                    !.responses = @ + 1,
                    !.shown = ClientShows(req[s].cancelled)]]
    /\ UNCHANGED <<now, apiKey, rateLimitMap, promptCache, arrivals, ticks, envChanges,
                   admits, admitLog, cacheWriter>>

\* generateContent settles after the timer won the race
LateSettle(s, reply) ==
    /\ req[s].pc = "done"
    /\ req[s].llm = "pending"
    /\ promptCache' = PostLate(req[s].query, reply, now, promptCache)
    /\ cacheWriter' = [k \in DOMAIN promptCache' |->
                          IF k \in DOMAIN promptCache /\ promptCache'[k] = promptCache[k]
                          THEN cacheWriter[k] ELSE req[s].id]
    /\ req' = [req EXCEPT ![s] = [@ EXCEPT !.llm = "late"]]
    /\ UNCHANGED <<now, apiKey, rateLimitMap, arrivals, ticks, envChanges, admits, admitLog>>

\* a handler that listens to the request's abort signal and abandons the request:
\* the variant the cancellation property C20 tells from the code
CancelAbandons(s) ==
    /\ req[s].pc = "llm"
    /\ ~req[s].cancelled
    /\ req' = [req EXCEPT ![s] =
          [@ EXCEPT !.cancelled = TRUE, !.pc = "done", !.timer = "cleared", !.llm = "late",
                    !.ops = @ \o <<"abort">>]]
    /\ UNCHANGED <<now, apiKey, rateLimitMap, promptCache, arrivals, ticks, envChanges,
                   admits, admitLog, cacheWriter>>

\* The client aborts the fetch (or disconnects) while the collaborator call is in
\* flight.  POST never reads req.signal: nothing of the handler changes.
Cancel(s) ==
    /\ req[s].pc = "llm"
    /\ ~req[s].cancelled
    /\ req' = [req EXCEPT ![s] = [@ EXCEPT !.cancelled = TRUE]]
    /\ UNCHANGED <<now, apiKey, rateLimitMap, promptCache, arrivals, ticks, envChanges,
                   admits, admitLog, cacheWriter>>

\* the instants at which something stored changes its meaning
Deadlines ==
    {rateLimitMap[k].resetAt : k \in DOMAIN rateLimitMap}
    \cup {promptCache[k].expiresAt : k \in DOMAIN promptCache}
    \cup {req[s].timerAt : s \in {x \in Slots : req[x].timer = "armed"}}

\* the instants the clock is advanced to: a deadline ahead or 1 ms past it, and
\* 1 ms ahead when no deadline is
TickTargets ==
    LET ahead == {t \in Deadlines \cup {d + 1 : d \in Deadlines} : t > now}
    IN IF ahead = {} THEN {now + 1} ELSE ahead

\* The clock advances
Tick ==
    /\ ticks < MaxTicks
    /\ \E t \in TickTargets : now' = t
    /\ ticks' = ticks + 1
    /\ UNCHANGED <<apiKey, rateLimitMap, promptCache, req, arrivals, envChanges, admits, admitLog,
                   cacheWriter>>

\* The operator sets or unsets GEMINI_API_KEY
SetEnv ==
    /\ envChanges < MaxEnvChanges
    /\ apiKey' = ~apiKey
    /\ envChanges' = envChanges + 1
    /\ UNCHANGED <<now, rateLimitMap, promptCache, req, arrivals, ticks, admits, admitLog,
                   cacheWriter>>

\* ------------------------------------------------------------------------
\* Inputs: request bodies, collaborator replies, collaborator errors
\* ------------------------------------------------------------------------
Reason(i) == JStr("Fits item " \o ToString(i) \o ".")
Item(i) == JMatch(JNum(i), Reason(i))
Text(items) == [json |-> TRUE, value |-> JMatches(JArr(items))]

Errors ==
    << [name |-> "Error", message |-> "[GoogleGenerativeAI Error]: [429 Too Many Requests] quota"],
       [name |-> "Error", message |-> "fetch failed"],
       [name |-> "AbortError", message |-> "This operation was aborted"] >>

\* errors of the wide specification
WideErrors ==
    Errors \o
    << [name |-> "TypeError", message |-> "fetch failed"],
       [name |-> "Error", message |-> "[GoogleGenerativeAI Error]: [503 Service Unavailable] overloaded"],
       [name |-> "AbortError", message |-> "aborted, status 429"] >>

\* inputs of the general specification
Bodies ==
    << JNull,
       JBody(JStr(" Beach ")),
       JBody(JStr("cheap surfing")),
       JBody(JStr("quiet village")),
       JBody(JStr("constructor")) >>

Replies ==
    << NotJson,
       Text(<<>>),
       Text(<<Item(4)>>),
       Text(<<Item(1), Item(2), Item(3), Item(4), Item(5)>>),
       Text(<<Item(1), Item(2), Item(3), Item(4), Item(5), Item(1)>>),
       Text(<<Item(2), Item(6)>>) >>

\* inputs of the wide specification
WideBodies ==
    << JNull,
       JArr(<<>>),
       JBody(JUndefined),
       JBody(JNum(5)),
       JBody(JStr("")),
       JBody(JStr(" \t\n ")),
       JBody(JStr(Rep("a", MAX_QUERY_LENGTH + 1))),
       JBody(JStr(" " \o Rep("a", MAX_QUERY_LENGTH + 1) \o " ")),
       JBody(JStr(" " \o Rep("a", MAX_QUERY_LENGTH) \o " ")),
       JBody(JStr("beaches")),
       JBody(JStr(" Beach ")),
       JBody(JStr("NATURE")),
       JBody(JStr("culture")),
       JBody(JStr("adventure")),
       JBody(JStr("hiking")),
       JBody(JStr("surfing")),
       JBody(JStr("History")),
       JBody(JStr("wildlife")),
       JBody(JStr("safari")),
       JBody(JStr("photography")),
       JBody(JStr("climbing")),
       JBody(JStr("walking\n")),
       JBody(JStr("beach trip")),
       JBody(JStr("constructor")),
       JBody(JStr("quiet village")),
       JBody(JStr("Under $100")),
       JBody(JStr("under $10")),
       JBody(JStr("anything up to 45")),
       JBody(JStr("$80 or less")),
       JBody(JStr("cheap surfing")),
       JBody(JStr("inexpensive hiking")),
       JBody(JStr("luxury safari")),
       JBody(JStr("luxury beach under $100")),
       JBody(JStr("cheapest luxurious trek")),
       JBody(JStr("cold beach surfing trip")),
       JBody(JStr("cheap cold beach")),
       JBody(JStr("luxury mountain surf")),
       JBody(JStr(" __PROTO__ ")),
       JBody(JStr("cheap trip under $100")) >>

WideReplies ==
    << NotJson,
       [json |-> TRUE, value |-> JNull],
       [json |-> TRUE, value |-> JMatches(JUndefined)],
       Text(<<>>),
       Text(<<Item(3)>>),
       Text(<<Item(2), Item(4)>>),
       Text(<<Item(4), Item(4)>>),
       Text(<<Item(1), Item(2), Item(3), Item(4), Item(5)>>),
       Text(<<Item(5), Item(4), Item(3), Item(2), Item(1)>>),
       Text(<<Item(1), Item(2), Item(3), Item(4), Item(5), Item(1)>>),
       Text(<<Item(2), Item(6)>>),
       Text(<<Item(0)>>),
       Text(<<JMatch(JFrac(2), Reason(2))>>),
       Text(<<JMatch(JStr("2"), Reason(2))>>),
       Text(<<Item(2), JMatch(JNum(4), JStr(""))>>),
       Text(<<Item(2), JMatch(JNum(4), JStr(Rep("r", MaxReasonLen)))>>),
       Text(<<Item(2), JMatch(JNum(4), JStr(Rep("r", MaxReasonLen + 1)))>>),
       Text(<<Item(2), JMatch(JNum(4), JNull)>>) >>

\* inputs of the burst specification
BurstBodies == << JNull, JBody(JStr(" Beach ")) >>
BurstHeader == "10.0.0.1"

\* inputs of the cancellation specification
CancelBodies == << JBody(JStr("cheap surfing")), JBody(JStr("quiet village")) >>
CancelReplies == << Text(<<>>), Text(<<Item(4)>>), Text(<<Item(2), Item(6)>>) >>

\* inputs of the environment specification
EnvBodies == << JBody(JStr("")), JBody(JStr(" Beach ")), JBody(JStr("quiet village")) >>

\* no request is being handled
NoneInFlight == \A s \in Slots : req[s].pc \in {"idle", "done"}

\* ------------------------------------------------------------------------
\* Specifications
\* ------------------------------------------------------------------------

\* The general specification: concurrent requests of one client over time
Next ==
    \/ \E s \in Slots, b \in DOMAIN Bodies : Arrive(s, NoHeader, Bodies[b], MaxArrivals)
    \/ \E s \in Slots : Body(s)
    \/ \E s \in Slots, r \in DOMAIN Replies : LlmResolve(s, Replies[r])
    \/ \E s \in Slots, e \in DOMAIN Errors : LlmReject(s, Errors[e])
    \/ \E s \in Slots : TimerFires(s)
    \/ \E s \in Slots, r \in DOMAIN Replies : LateSettle(s, Replies[r])
    \/ Tick

Spec == Init /\ [][Next]_vars

\* The burst specification: more requests of one client than the limit, one
\* after the other
NextBurst ==
    \/ \E s \in Slots, b \in DOMAIN BurstBodies :
          NoneInFlight /\ Arrive(s, BurstHeader, BurstBodies[b], MaxBurst)
    \/ \E s \in Slots : Body(s)
    \/ Tick

SpecBurst == Init /\ [][NextBurst]_vars

\* The wide specification: one request, of either client, over every input
NextWide ==
    \/ \E s \in Slots, h \in Headers, b \in DOMAIN WideBodies :
          Arrive(s, h, WideBodies[b], MaxWide)
    \/ \E s \in Slots : Body(s)
    \/ \E s \in Slots, r \in DOMAIN WideReplies : LlmResolve(s, WideReplies[r])
    \/ \E s \in Slots, e \in DOMAIN WideErrors : LlmReject(s, WideErrors[e])
    \/ \E s \in Slots : TimerFires(s)
    \/ \E s \in Slots, r \in DOMAIN WideReplies : LateSettle(s, WideReplies[r])
    \/ Tick
    \/ SetEnv

SpecWide == Init /\ [][NextWide]_vars

\* The cancellation specification: the requests of a client that may abort them
NextCancel ==
    \/ \E s \in Slots, b \in DOMAIN CancelBodies :
          Arrive(s, NoHeader, CancelBodies[b], MaxArrivals)
    \/ \E s \in Slots : Body(s)
    \/ \E s \in Slots, r \in DOMAIN CancelReplies : LlmResolve(s, CancelReplies[r])
    \/ \E s \in Slots, e \in DOMAIN Errors : LlmReject(s, Errors[e])
    \/ \E s \in Slots : TimerFires(s)
    \/ \E s \in Slots, r \in DOMAIN CancelReplies : LateSettle(s, CancelReplies[r])
    \/ \E s \in Slots : Cancel(s)
    \/ Tick

SpecCancel == Init /\ [][NextCancel]_vars

\* The environment specification: requests of a client while the operator sets or
\* unsets the credential
NextEnv ==
    \/ \E s \in Slots, b \in DOMAIN EnvBodies : Arrive(s, NoHeader, EnvBodies[b], MaxArrivals)
    \/ \E s \in Slots : Body(s)
    \/ \E s \in Slots, r \in DOMAIN CancelReplies : LlmResolve(s, CancelReplies[r])
    \/ Tick
    \/ SetEnv

SpecEnv == Init /\ [][NextEnv]_vars

\* The clients specification: more requests than the limit, of two clients, one
\* request after the other
NextClients ==
    \/ \E s \in Slots, h \in Headers :
          NoneInFlight /\ Arrive(s, h, JNull, MaxBurst)
    \/ \E s \in Slots : Body(s)
    \/ Tick

SpecClients == Init /\ [][NextClients]_vars

\* The general specification with the event loop's guarantee: a timer whose delay
\* has elapsed has its callback run
SpecLive == Spec /\ \A s \in Slots : WF_vars(TimerFires(s))

\* ------------------------------------------------------------------------
\* Properties
\* ------------------------------------------------------------------------
Done(s) == req[s].pc = "done"
Did(s, op) == InSeq(op, req[s].ops)
\* the inventory price of the item with this id
PriceOf(id) ==
    travelPackages[CHOOSE i \in DOMAIN travelPackages : travelPackages[i].id = id].price
\* the ids the collaborator's reply names, where it is a list of items with numeric ids
ReplyIds(reply) ==
    IF reply.json /\ reply.value.type = "object" /\ reply.value.matches.type = "array"
    THEN {reply.value.matches.items[i].id.value :
             i \in {j \in DOMAIN reply.value.matches.items :
                       reply.value.matches.items[j].id.type = "number"}}
    ELSE {}

\* C1: once maxRequests (10) requests of a client were admitted in its current
\* window, every further request of that client arriving while now <= resetAt is
\* answered 429 with the rate-limit error whatever its body, and the handler does
\* nothing else for it: isRateLimited is the only operation performed (no
\* validation, no cache lookup or write, no keyword shortcut, no collaborator call).
C1_RateLimitDenies ==
    \A s \in Slots :
        (req[s].id # 0 /\ req[s].priorAdmits >= maxRequests)
        => /\ Done(s)
           /\ req[s].resp = Err(429, MsgTooMany)
           /\ req[s].ops = <<"isRateLimited">>
           /\ req[s].llm = "none"
           /\ req[s].responses = 1

\* C1 happens: the 11th request of the window, with a valid keyword query, arrives
\* at the very instant now = resetAt and is denied
C1_Witness ==
    \E s \in Slots :
        /\ req[s].priorAdmits = maxRequests
        /\ req[s].body = JBody(JStr(" Beach "))
        /\ req[s].ip \in DOMAIN rateLimitMap
        /\ req[s].tArrive = rateLimitMap[req[s].ip].resetAt
        /\ req[s].resp.status = 429

\* C2: on the collaborator path, when a budget ceiling c is detected in the query
\* every match of a 200 response has an inventory price <= c, whatever valid list
\* the collaborator returned; with no ceiling but a floor f, every match has an
\* inventory price >= f.
C2_BudgetHardConstraint ==
    \A s \in Slots :
        (Done(s) /\ req[s].resp.status = 200 /\ Did(s, "AIResponseSchema"))
        => LET c == extractBudget(req[s].query)
               f == wantsExpensive(req[s].query)
               matches == req[s].resp.body.matches
           IN /\ c.some => \A i \in DOMAIN matches : PriceOf(matches[i].id) <= c.v
              /\ (~c.some /\ f.some)
                    => \A i \in DOMAIN matches : PriceOf(matches[i].id) >= f.v

\* C2 happens: the collaborator returned an item priced above the detected ceiling
\* next to one within it, and the 200 response carries matches
C2_Witness ==
    \E s \in Slots :
        /\ Done(s) /\ req[s].resp.status = 200 /\ Did(s, "AIResponseSchema")
        /\ extractBudget(req[s].query).some
        /\ \E id \in ReplyIds(req[s].reply) \cap VALID_IDS :
              PriceOf(id) > extractBudget(req[s].query).v
        /\ Len(req[s].resp.body.matches) > 0

\* b is the identical query submitted again: it arrived after a was answered 200,
\* within CACHE_TTL_MS (5 minutes) of a, and was admitted by the rate limiter
Resubmitted(a, b) ==
    /\ a # b
    /\ Done(a) /\ req[a].resp.status = 200
    /\ req[b].id # 0 /\ req[b].prev = req[a].id
    /\ req[b].body = req[a].body
    /\ req[b].tArrive <= req[a].tArrive + CACHE_TTL_MS
    /\ Did(b, "apiKey")

InvalidBody(body) ==
    \/ body.type # "object"
    \/ body.query.type # "string"
    \/ Len(trim(body.query.value)) = 0
    \/ Len(trim(body.query.value)) > MAX_QUERY_LENGTH

\* C4 as stated: every request admitted by the rate limiter whose body is invalid
\* is answered 400
C4_Original ==
    \A s \in Slots :
        (Done(s) /\ Did(s, "apiKey") /\ InvalidBody(req[s].body))
        => req[s].resp.status = 400

\* C4, as the code has it: a request admitted by the rate limiter while the
\* collaborator credential is configured, whose body is not an object with a string
\* query or whose query has trimmed length 0 or > 500, is answered 400 with an error
\* message as soon as its body is read, whatever the collaborator would do, having
\* performed no cache lookup, cache write, keyword shortcut or collaborator call;
\* every other body, a query of trimmed length exactly 500 included, passes
\* validation and reaches the cache lookup.
C4_ValidationFirst ==
    \A s \in Slots :
        (Did(s, "req.json") /\ req[s].pc # "body")
        => IF InvalidBody(req[s].body)
           THEN /\ Done(s)
                /\ req[s].resp.status = 400
                /\ req[s].resp.body.error # ""
                /\ req[s].ops = <<"isRateLimited", "apiKey", "req.json", "RequestSchema">>
                /\ req[s].llm = "none"
                /\ req[s].responses = 1
           ELSE /\ Did(s, "getCached")
                /\ req[s].resp.status # 400

\* C4 happens: a query of 501 characters between two spaces is answered 400 with
\* the length message
C4_Witness ==
    \E s \in Slots :
        /\ Did(s, "req.json")
        /\ req[s].body = JBody(JStr(" " \o Rep("a", MAX_QUERY_LENGTH + 1) \o " "))
        /\ req[s].resp = Err(400, MsgTooLong)

\* the ids of the inventory items
InventoryIds == {travelPackages[i].id : i \in DOMAIN travelPackages}

\* C5: every 200 response, whether it comes from the cache, the keyword shortcut or
\* the collaborator path, carries at most 5 matches, and every match id is the id
\* of an inventory item.
C5_BoundedValidMatches ==
    \A s \in Slots :
        (Done(s) /\ req[s].resp.status = 200)
        => /\ Len(req[s].resp.body.matches) <= 5
           /\ \A i \in DOMAIN req[s].resp.body.matches :
                 req[s].resp.body.matches[i].id \in InventoryIds

\* C5 happens: a response of exactly 5 matches, computed by the collaborator path
\* for an earlier request, is served from the cache
C5_Witness ==
    \E a, b \in Slots :
        /\ Done(a) /\ req[a].resp.status = 200 /\ Did(a, "AIResponseSchema")
        /\ Done(b) /\ req[b].resp.status = 200
        /\ req[b].ops = <<"isRateLimited", "apiKey", "req.json", "RequestSchema", "getCached">>
        /\ req[b].servedWriter = req[a].id
        /\ Len(req[b].resp.body.matches) = 5

\* the reply is a JSON object with a list of match objects
ListReply(reply) ==
    /\ reply.json
    /\ reply.value.type = "object"
    /\ reply.value.matches.type = "array"
    /\ \A i \in DOMAIN reply.value.matches.items : reply.value.matches.items[i].type = "object"

\* the match has a non-integer id, an id outside the inventory, or a reason that is
\* not a text of 1..200 characters
BadMatch(m) ==
    \/ m.id.type # "number"
    \/ ~m.id.int
    \/ m.id.value \notin InventoryIds
    \/ m.reason.type # "string"
    \/ Len(m.reason.value) < 1
    \/ Len(m.reason.value) > 200

\* the reply is not JSON, or is a list of more than 5 matches or with a bad match
BadReply(reply) ==
    \/ ~reply.json
    \/ /\ ListReply(reply)
       /\ \/ Len(reply.value.matches.items) > 5
          \/ \E i \in DOMAIN reply.value.matches.items : BadMatch(reply.value.matches.items[i])

\* C6: when the collaborator's reply is not JSON, or is JSON with more than 5
\* matches, a non-integer id, a reason outside 1..200 characters or any one match
\* whose id is not an inventory id, the request is answered 502: the whole reply is
\* rejected (no match of it is returned) and the request writes nothing to the cache.
C6_WholeReplyRejected ==
    \A s \in Slots :
        (Done(s) /\ Did(s, "JSON.parse") /\ BadReply(req[s].reply))
        => /\ req[s].resp.status = 502
           /\ req[s].resp.body \in {[error |-> MsgNonJson], [error |-> MsgFormat]}
           /\ ~Did(s, "setCache")
           /\ \A k \in DOMAIN cacheWriter : cacheWriter[k] # req[s].id

\* C6 happens: a reply with a valid match and one with an id outside the inventory
\* is answered 502 with the format message
C6_Witness ==
    \E s \in Slots :
        /\ Done(s) /\ Did(s, "JSON.parse")
        /\ req[s].reply = Text(<<Item(2), Item(6)>>)
        /\ req[s].resp = Err(502, MsgFormat)
        /\ promptCache = <<>>

\* the request in slot s lost its collaborator call to the timer
TimedOut(s) == req[s].timer = "fired"

\* a step in which the collaborator call of a timed-out request settles
LateCompletion(s) == TimedOut(s) /\ req[s].llm = "pending" /\ req'[s].llm # "pending"

\* C7: when the timer of LLM_TIMEOUT_MS (15000 ms) fires before the collaborator
\* call settles, the request ends with 502 and the 'took too long' message, which is
\* not the generic collaborator-failure message, as its only response; and the later
\* completion of the collaborator call changes neither the cache nor the rate-limit
\* state nor the response given, and gives no second response.
C7_DeadlineRace ==
    /\ [](\A s \in Slots :
            TimedOut(s)
            => /\ Done(s)
               /\ req[s].resp = Err(502, MsgTimeout)
               /\ MsgTimeout # MsgUnreachable
               /\ req[s].responses = 1
               /\ req[s].timerAt = req[s].tBody + 15000
               /\ now >= req[s].timerAt
               /\ ~Did(s, "setCache"))
    /\ [][\A s \in Slots :
            LateCompletion(s)
            => /\ promptCache' = promptCache
               /\ rateLimitMap' = rateLimitMap
               /\ req'[s].resp = req[s].resp
               /\ req'[s].responses = req[s].responses
               /\ req'[s].pc = "done"]_vars

\* C7 happens: the timer fired, the request was answered with the timeout message,
\* and the collaborator call settled afterwards
C7_Witness ==
    \E s \in Slots :
        /\ TimedOut(s)
        /\ req[s].llm = "late"
        /\ req[s].resp = Err(502, MsgTimeout)
        /\ now >= req[s].tBody + LLM_TIMEOUT_MS

\* the request in slot s succeeded on the collaborator path with an empty list
EmptySuccess(s) ==
    /\ Done(s) /\ req[s].resp.status = 200
    /\ Did(s, "AIResponseSchema")
    /\ Len(req[s].resp.body.matches) = 0

Responds(s) ==
    /\ req'[s].pc = "done"
    /\ req[s].pc # "done" \/ req'[s].id # req[s].id

\* C9: a request that ends with 400, 429, 500 or 502 writes no cache entry: the
\* step that answers it adds no entry and changes none, the request is the writer
\* of no entry, and every response that is not 200 has one of those four statuses.
C9_FailuresNotCached ==
    /\ [](\A s \in Slots :
            (Done(s) /\ req[s].resp.status # 200)
            => /\ req[s].resp.status \in {400, 429, 500, 502}
               /\ ~Did(s, "setCache")
               /\ req[s].servedWriter = 0
               /\ \A k \in DOMAIN cacheWriter : cacheWriter[k] # req[s].id)
    /\ [][\A s \in Slots :
            (Responds(s) /\ req'[s].resp.status # 200)
            => \A k \in DOMAIN promptCache' :
                  k \in DOMAIN promptCache /\ promptCache'[k] = promptCache[k]]_vars

\* C9 happens: a schema-invalid reply was answered 502, and the identical query
\* submitted again found no entry, was computed afresh by the collaborator and
\* answered 200
C9_Witness ==
    \E a, b \in Slots :
        /\ a # b
        /\ Done(a) /\ req[a].resp = Err(502, MsgFormat)
        /\ req[b].prev = req[a].id /\ req[b].body = req[a].body
        /\ req[b].seenWriter = 0
        /\ Done(b) /\ req[b].resp.status = 200 /\ Did(b, "generateContent")

\* the fixed keywords and the tags each is mapped to
Keywords == DOMAIN TAG_KEYWORD_MAP
MappedTags(k) == {TAG_KEYWORD_MAP[k][i] : i \in DOMAIN TAG_KEYWORD_MAP[k]}
\* the tags of the inventory item with this id
TagsOf(id) ==
    LET item == travelPackages[CHOOSE i \in DOMAIN travelPackages : travelPackages[i].id = id]
    IN {item.tags[i] : i \in DOMAIN item.tags}

\* C10: when the lowercased, trimmed query equals one of the fixed keywords, the
\* request is answered 200 with exactly one match for every inventory item whose
\* tags intersect the keyword's mapped tags and none for any other item; each reason
\* is "Matched '...' tag." or "Matched '...', '...' tags." and quotes exactly the
\* item's overlapping tags; the collaborator is never called, and the response is
\* the content of the cache entry of the query.
C10_KeywordShortcut ==
    \A s \in Slots :
        (Did(s, "getCached") /\ toLowerCase(trim(req[s].body.query.value)) \in Keywords)
        => LET k == toLowerCase(trim(req[s].body.query.value))
               matches == req[s].resp.body.matches
           IN /\ Done(s)
              /\ req[s].resp.status = 200
              /\ DOMAIN req[s].resp.body = {"matches"}
              /\ \A id \in InventoryIds :
                    Cardinality({i \in DOMAIN matches : matches[i].id = id})
                       = IF TagsOf(id) \cap MappedTags(k) # {} THEN 1 ELSE 0
              /\ \A i \in DOMAIN matches :
                    /\ matches[i].id \in InventoryIds
                    /\ HasAt(matches[i].reason, 1, "Matched '")
                    /\ \A t \in TagsOf(matches[i].id) :
                          includes(matches[i].reason, "'" \o t \o "'")
                             <=> t \in MappedTags(k)
                    /\ LET n == Cardinality(TagsOf(matches[i].id) \cap MappedTags(k))
                           end == IF n = 1 THEN "' tag." ELSE "' tags."
                       IN HasAt(matches[i].reason,
                                Len(matches[i].reason) - Len(end) + 1, end)
              /\ ~Did(s, "generateContent")
              /\ req[s].llm = "none"
              /\ k \in DOMAIN promptCache
              /\ promptCache[k].data = req[s].resp.body

\* C10 happens: " Beach " is answered by the shortcut with the one beach item and
\* the reason of the example, and the entry "beach" is written with a 5 minute life
C10_Witness ==
    \E s \in Slots :
        /\ req[s].body = JBody(JStr(" Beach "))
        /\ req[s].resp = Ok([matches |-> << [id |-> 4, reason |-> "Matched 'beach' tag."] >>])
        /\ Did(s, "tryKeywordMatch") /\ Did(s, "setCache")
        /\ "beach" \in DOMAIN promptCache
        /\ promptCache["beach"].expiresAt = req[s].tBody + CACHE_TTL_MS

\* the normalized (lowercased, trimmed) query of the request in slot s
Normalized(s) == toLowerCase(trim(req[s].body.query.value))

\* C11 as stated: for every valid query whose normalized form is not one of the 13
\* keys of the keyword map, the shortcut reports absent and the request proceeds to
\* the collaborator call
C11_Original ==
    /\ Cardinality(Keywords) = 13
    /\ \A s \in Slots :
          (Did(s, "tryKeywordMatch") /\ Normalized(s) \notin Keywords)
          => /\ Did(s, "generateContent")
             /\ req[s].resp.status # 500

\* the ids of a list of matches
IdsOf(matches) == {matches[i].id : i \in DOMAIN matches}

\* every inventory item is returned by the shortcut for some keyword
EveryItemReachable ==
    \A id \in InventoryIds : \E k \in Keywords :
        /\ TagsOf(id) \cap MappedTags(k) # {}
        /\ id \in IdsOf(tryKeywordMatch(k).matches)

\* C12: for every inventory item and every keyword whose mapped tags include one of
\* the item's tags, the shortcut response to that keyword contains the item's id;
\* and every inventory item is returned by the shortcut for at least one keyword.
C12_RoundTrip ==
    /\ EveryItemReachable
    /\ \A s \in Slots :
          (Done(s) /\ Did(s, "tryKeywordMatch") /\ Normalized(s) \in Keywords)
          => /\ req[s].resp.status = 200
             /\ \A id \in InventoryIds :
                   TagsOf(id) \cap MappedTags(Normalized(s)) # {}
                   => id \in IdsOf(req[s].resp.body.matches)

\* C12 happens: the keyword "history", typed "History", whose mapped tags are carried
\* by two items, is answered with both
C12_Witness ==
    \E s \in Slots :
        /\ Done(s) /\ Did(s, "tryKeywordMatch")
        /\ req[s].body = JBody(JStr("History"))
        /\ req[s].resp.status = 200
        /\ IdsOf(req[s].resp.body.matches) = {2, 5}

\* the request in slot s was answered from the cache / by the keyword shortcut
CacheHit(s) == Done(s) /\ Did(s, "getCached") /\ ~Did(s, "tryKeywordMatch")
ShortcutHit(s) ==
    Done(s) /\ Did(s, "tryKeywordMatch") /\ ~Did(s, "generateContent") /\ ~Did(s, "catch")
HasHint(s) == "hint" \in DOMAIN req[s].resp.body

\* C13: in every 200 response a hint field is present only when the matches list is
\* empty, and no response served from the cache or by the keyword shortcut carries
\* a hint.
C13_HintOnlyWhenEmpty ==
    \A s \in Slots :
        (Done(s) /\ req[s].resp.status = 200)
        => /\ HasHint(s) => Len(req[s].resp.body.matches) = 0
           /\ (CacheHit(s) \/ ShortcutHit(s)) => ~HasHint(s)
           /\ HasHint(s) => (Did(s, "AIResponseSchema") /\ req[s].resp.body.hint # "")

\* C13 happens: a query with a ceiling, whose collaborator result had items within
\* the ceiling, is served from the cache to a second request, without a hint
C13_Witness ==
    \E a, b \in Slots :
        /\ Done(a) /\ req[a].resp.status = 200 /\ Did(a, "AIResponseSchema")
        /\ Hint(req[a].query) # ""
        /\ Len(req[a].resp.body.matches) > 0 /\ ~HasHint(a)
        /\ CacheHit(b) /\ req[b].servedWriter = req[a].id
        /\ req[b].resp.status = 200 /\ ~HasHint(b)

\* C13 also happens on its other side: an empty result carries a hint
C13_HintShown ==
    \E s \in Slots :
        /\ Done(s) /\ req[s].resp.status = 200 /\ HasHint(s)
        /\ Len(req[s].resp.body.matches) = 0

\* the lowercased query contains a substring of both sides of some conflict pair
Conflicting(query) ==
    \E p \in DOMAIN conflictPairs :
        /\ \E a \in DOMAIN conflictPairs[p][1] : includes(toLowerCase(query), conflictPairs[p][1][a])
        /\ \E b \in DOMAIN conflictPairs[p][2] : includes(toLowerCase(query), conflictPairs[p][2][b])

\* the inventory prices
Prices == {travelPackages[i].price : i \in DOMAIN travelPackages}

\* C14: for an empty final match list, in strict priority order: (1) with a ceiling
\* c detected, the hint names the cheapest inventory price when no item has a price
\* <= c, and otherwise states the number of inventory items with a price <= c;
\* (2) else with a floor detected, the hint is the floor hint; (3) else when the
\* lowercased query has a substring of both sides of a conflict pair, the hint is
\* the fixed 'combines things that don't overlap' text; (4) else the response has
\* no hint field.  A budget hint always wins over the conflict hint.
C14_HintTable ==
    \A s \in Slots :
        EmptySuccess(s)
        => LET c == extractBudget(req[s].query)
               f == wantsExpensive(req[s].query)
               n == Cardinality({i \in DOMAIN travelPackages : travelPackages[i].price <= c.v})
           IN IF c.some
              THEN /\ HasHint(s)
                   /\ req[s].resp.body.hint # MsgConflict
                   /\ includes(req[s].resp.body.hint, "$" \o ToString(c.v))
                   /\ IF n = 0
                      THEN includes(req[s].resp.body.hint,
                                    "starts at $" \o ToString(Min(Prices)) \o ".")
                      ELSE includes(req[s].resp.body.hint,
                                    ". " \o ToString(n) \o " option")
              ELSE IF f.some
              THEN /\ HasHint(s)
                   /\ req[s].resp.body.hint # MsgConflict
                   /\ includes(req[s].resp.body.hint, "$" \o ToString(f.v) \o "+")
              ELSE IF Conflicting(req[s].query)
              THEN HasHint(s) /\ req[s].resp.body.hint = MsgConflict
              ELSE ~HasHint(s)

\* C14 happens: a query with a qualitative ceiling and both sides of a conflict pair
\* gets the budget hint, counting the one item within the ceiling
C14_Witness ==
    \E s \in Slots :
        /\ EmptySuccess(s)
        /\ req[s].query = "cheap cold beach"
        /\ Conflicting(req[s].query)
        /\ req[s].resp.body.hint =
              "No experiences match all your criteria within $60. 1 option exists in that price range - try broadening your interests."

\* the collaborator call of the request in slot s failed: it rejected, or the
\* deadline expired first
CallFailed(s) == Done(s) /\ Did(s, "generateContent") /\ Did(s, "catch")
DeadlineExpired(s) == Did(s, "timeout")
\* the error carries the vendor's rate-limit signal
VendorRateLimit(err) == includes(err.message, "429")

C16_OneShapedResponse ==
    \A s \in Slots :
        req[s].id # 0
        => /\ req[s].pc \in {"body", "llm", "done"}
           /\ req[s].pc = "body" => req[s].responses = 0
           /\ req[s].pc = "llm" => (req[s].responses = 0 /\ req[s].timer = "armed")
           /\ Done(s)
              => /\ req[s].responses = 1
                 /\ req[s].resp.status \in {200, 400, 429, 500, 502}
                 /\ IF req[s].resp.status = 200
                    THEN /\ "matches" \in DOMAIN req[s].resp.body
                         /\ "error" \notin DOMAIN req[s].resp.body
                         /\ DOMAIN req[s].resp.body.matches
                               = 1..Len(req[s].resp.body.matches)
                    ELSE /\ DOMAIN req[s].resp.body = {"error"}
                         /\ Len(req[s].resp.body.error) > 0
                 /\ (Did(s, "catch") /\ ~Did(s, "generateContent"))
                       => req[s].resp = Err(500, MsgUnexpected)

\* C16 happens: a fault in the keyword lookup, which no branch handles, was answered
\* 500 with the generic message, next to a request answered 200
C16_Witness ==
    \E a, b \in Slots :
        /\ Done(a) /\ Did(a, "catch") /\ ~Did(a, "generateContent")
        /\ req[a].resp = Err(500, MsgUnexpected) /\ req[a].responses = 1
        /\ Done(b) /\ req[b].resp.status = 200 /\ req[b].responses = 1

\* the number of requests of ip admitted at a time in [from, to]
AdmittedIn(ip, from, to) ==
    Cardinality({j \in DOMAIN admitLog[ip] : from <= admitLog[ip][j] /\ admitLog[ip][j] <= to})

\* C17 as stated: in every interval of 60,000 ms at most 10 requests of a client are
\* admitted (the intervals that begin with an admitted request suffice)
C17_Original ==
    \A ip \in Clients : \A i \in DOMAIN admitLog[ip] :
        AdmittedIn(ip, admitLog[ip][i], admitLog[ip][i] + 60000 - 1) <= 10

\* C17, as the code has it: the limit is per fixed window.  The window of a client
\* is opened by an admitted request, at w = resetAt - 60000, and lasts until resetAt
\* inclusive; its count is the number of the client's requests admitted in it and
\* never exceeds 10; a new window opens only later than resetAt.  An interval of
\* 60,000 ms meets at most two windows, so it holds at most 20 admitted requests.
C17_FixedWindow ==
    /\ \A ip \in DOMAIN rateLimitMap :
          /\ rateLimitMap[ip].count <= 10
          /\ rateLimitMap[ip].count
                = AdmittedIn(ip, rateLimitMap[ip].resetAt - 60000, rateLimitMap[ip].resetAt)
          /\ \A j \in DOMAIN admitLog[ip] : admitLog[ip][j] <= rateLimitMap[ip].resetAt
          /\ admitLog[ip] # <<>>
    /\ \A ip \in Clients : \A i \in DOMAIN admitLog[ip] :
          AdmittedIn(ip, admitLog[ip][i], admitLog[ip][i] + 60000 - 1) <= 2 * 10

\* C17 happens: more than 10 requests of a client, admitted in two consecutive
\* windows, lie within 60,000 ms of each other
C17_Witness ==
    \E ip \in DOMAIN rateLimitMap : \E i \in DOMAIN admitLog[ip] :
        /\ AdmittedIn(ip, admitLog[ip][i], admitLog[ip][i] + 60000 - 1) > 10
        /\ admitLog[ip][i] < rateLimitMap[ip].resetAt - 60000
        /\ rateLimitMap[ip].count <= 10

\* a request arrives in slot s in this step / was admitted by the limiter
Arrives(s) == req'[s].id # req[s].id
AdmittedNext(s) == InSeq("apiKey", req'[s].ops)

\* C18: every request admitted by the rate limiter consumes exactly one unit of its
\* client's quota, whatever its later outcome: on its arrival the client's count
\* becomes the number admitted before it in the window plus one, and no later step
\* of its handling (400, 500, 502, cache hit, shortcut hit, 200) changes the
\* rate-limit state; so the count always is the number of requests admitted in the
\* window.
C18_QuotaConsumed ==
    /\ [](\A ip \in DOMAIN rateLimitMap : rateLimitMap[ip].count = admits[ip])
    /\ [][\A s \in Slots :
            /\ (Arrives(s) /\ AdmittedNext(s))
                  => /\ rateLimitMap'[req'[s].ip].count = req'[s].priorAdmits + 1
                     /\ admits'[req'[s].ip] = req'[s].priorAdmits + 1
            /\ (Arrives(s) /\ ~AdmittedNext(s)) => rateLimitMap' = rateLimitMap
            /\ (~Arrives(s) /\ req'[s] # req[s]) => rateLimitMap' = rateLimitMap]_vars

\* C18 happens: a request answered 400 and one answered 502 were both admitted, and
\* the client's count is 2
C18_Witness ==
    \E a, b \in Slots :
        /\ Done(a) /\ req[a].resp.status = 400
        /\ Done(b) /\ req[b].resp.status = 502
        /\ req[a].ip = req[b].ip
        /\ req[a].ip \in DOMAIN rateLimitMap
        /\ rateLimitMap[req[a].ip].count = 2
        /\ {req[a].priorAdmits, req[b].priorAdmits} = {0, 1}

\* the number of collaborator calls a request has made
Calls(s) == Cardinality({i \in DOMAIN req[s].ops : req[s].ops[i] = "generateContent"})

\* the request was answered before the collaborator call of the handler: denied by
\* the limiter, credential missing, body invalid, cache hit or shortcut hit
NoCallDue(s) ==
    \/ req[s].ops = <<"isRateLimited">>
    \/ req[s].ops = <<"isRateLimited", "apiKey">>
    \/ Did(s, "req.json") /\ InvalidBody(req[s].body)
    \/ CacheHit(s)
    \/ ShortcutHit(s)

\* C19 as stated: a request calls the collaborator at most once; an answered request
\* made no call when it was rate limited, invalid, without credential, served from
\* the cache or by the keyword shortcut, and exactly one call otherwise.
C19_Original ==
    \A s \in Slots :
        /\ Calls(s) <= 1
        /\ Done(s) => Calls(s) = (IF NoCallDue(s) THEN 0 ELSE 1)

\* what holds of the calls: never two for a request, none in the five cases, and an
\* answered request outside them without a call is one whose shortcut lookup threw
C19_AtMostOnce ==
    \A s \in Slots :
        /\ Calls(s) <= 1
        /\ (Done(s) /\ NoCallDue(s)) => Calls(s) = 0
        /\ (Done(s) /\ ~NoCallDue(s) /\ Calls(s) = 0)
              => /\ req[s].ops[Len(req[s].ops)] = "catch"
                 /\ req[s].resp.status = 500
                 /\ Normalized(s) \in {"constructor", "__proto__"}

\* the request was cancelled by its client while its collaborator call was in flight
Cancelled(s) == req[s].cancelled
\* a step in which the client cancels the request
Cancels(s) == req'[s].cancelled /\ ~req[s].cancelled /\ req'[s].id = req[s].id
\* the matches of a 200 response are not empty
NonEmpty200(s) ==
    /\ req[s].resp.status = 200
    /\ req[s].resp.body.matches # <<>>

\* C20 as stated: the result of a request cancelled while its collaborator call was
\* in flight is ignored, in particular it is never written to the response cache.
C20_Original ==
    \A s \in Slots : Cancelled(s) => ~Did(s, "setCache")

\* C20: cancellation is seen by the client only.  The client never renders the
\* response of a request it cancelled; the handler does not observe the
\* cancellation: the step in which the client cancels changes nothing of the
\* request's handling, of the cache or of the rate-limit state, the cancelled
\* request is answered like any other by the settling of its collaborator call or
\* by its timer, and when its result is a non-empty list of matches it is written into
\* the cache under the request's key.
C20_CancelUnobserved ==
    /\ [](\A s \in Slots :
            /\ Cancelled(s) => ~req[s].shown
            /\ (Cancelled(s) /\ Done(s))
                  => /\ req[s].responses = 1
                     /\ Did(s, "clearTimeout")
            /\ (Cancelled(s) /\ Done(s) /\ NonEmpty200(s))
                  => /\ Did(s, "setCache")
                     /\ req[s].servedWriter = req[s].id)
    /\ [][\A s \in Slots :
            /\ Cancels(s)
                  => /\ req' = [req EXCEPT ![s] = [@ EXCEPT !.cancelled = TRUE]]
                     /\ req[s].pc = "llm"
                     /\ UNCHANGED <<promptCache, rateLimitMap, cacheWriter>>
            /\ (Cancelled(s) /\ Responds(s) /\ NonEmpty200(s)')
                  => /\ CacheKey(req[s].query) \in DOMAIN promptCache'
                     /\ promptCache'[CacheKey(req[s].query)].data = req'[s].resp.body
                     /\ cacheWriter'[CacheKey(req[s].query)] = req[s].id]_vars

\* C20 happens: a request cancelled in flight was answered 200 with matches, which
\* the client did not render, and the cache holds them, written by that request
C20_Witness ==
    \E s \in Slots :
        /\ Cancelled(s) /\ Done(s) /\ NonEmpty200(s)
        /\ ~req[s].shown
        /\ Did(s, "setCache")
        /\ CacheKey(req[s].query) \in DOMAIN promptCache
        /\ cacheWriter[CacheKey(req[s].query)] = req[s].id
        /\ promptCache[CacheKey(req[s].query)].data = req[s].resp.body

\* the request waits on its collaborator call
Waiting(s) == req[s].pc = "llm"
\* the delay of the request's timer has elapsed
TimerDue(s) == req[s].timer = "armed" /\ now >= req[s].timerAt

\* C21: a request waits on the collaborator only with its timer armed, and once the
\* timer's delay has elapsed it is answered whether or not the collaborator ever
\* settles; a request answered by the settling of its collaborator call has its timer
\* cleared, a cleared timer stays cleared, and the response of such a request is
\* never replaced by a timeout outcome.
C21_BoundedResponse ==
    /\ \A s \in Slots : (Waiting(s) /\ TimerDue(s)) ~> Done(s)
    /\ [](\A s \in Slots :
            /\ Waiting(s) => (req[s].timer = "armed" /\ req[s].llm = "pending")
            /\ (Done(s) /\ req[s].llm = "settled")
                  => /\ req[s].timer = "cleared"
                     /\ ~DeadlineExpired(s)
                     /\ req[s].responses = 1)
    /\ [][\A s \in Slots :
            (req[s].timer = "cleared" /\ req'[s].id = req[s].id)
               => /\ req'[s].timer = "cleared"
                  /\ req'[s].resp = req[s].resp]_vars

\* C21 happens: the collaborator never settled and the timer answered the request;
\* another request was answered by its collaborator with the timer cleared, and the
\* clock is past that timer's delay
C21_Witness ==
    \E a, b \in Slots :
        /\ Done(a) /\ TimedOut(a) /\ req[a].llm = "pending" /\ req[a].resp.status = 502
        /\ Done(b) /\ req[b].llm = "settled" /\ req[b].timer = "cleared"
        /\ now > req[b].timerAt

\* the request arriving in slot s in this step is denied by the limiter
DeniedNext(s) == req'[s].ops = <<"isRateLimited">> /\ req'[s].resp.status = 429

\* C22: a client's first request, and its first request arriving with now > resetAt,
\* is admitted and replaces the entry by count = 1, resetAt = now + 60000; a request
\* arriving with now <= resetAt, the instant now = resetAt included, counts against
\* the window that is open: it is denied and leaves the entry when the count is
\* already 10, and otherwise raises the count by one and leaves resetAt.
C22_WindowLifecycle ==
    [][\A s \in Slots : Arrives(s) =>
          LET ip == req'[s].ip IN
          IF ip \notin DOMAIN rateLimitMap \/ now > rateLimitMap[ip].resetAt
          THEN /\ ~DeniedNext(s)
               /\ rateLimitMap'[ip] = [count |-> 1, resetAt |-> now + 60000]
          ELSE IF rateLimitMap[ip].count >= 10
          THEN /\ DeniedNext(s)
               /\ rateLimitMap'[ip] = rateLimitMap[ip]
          ELSE /\ ~DeniedNext(s)
               /\ rateLimitMap'[ip] = [count |-> rateLimitMap[ip].count + 1,
                                       resetAt |-> rateLimitMap[ip].resetAt]]_vars

\* C22 happens: a request arrived at the instant resetAt of its client's window and
\* was counted in it, and an earlier window of the client was replaced
C22_Witness ==
    \E s \in Slots :
        /\ req[s].id # 0
        /\ req[s].ip \in DOMAIN rateLimitMap
        /\ req[s].tArrive = rateLimitMap[req[s].ip].resetAt
        /\ req[s].priorAdmits >= 1
        /\ rateLimitMap[req[s].ip].count = req[s].priorAdmits + 1
        /\ InSeq("apiKey", req[s].ops)
        /\ \E i \in DOMAIN admitLog[req[s].ip] :
              admitLog[req[s].ip][i] < rateLimitMap[req[s].ip].resetAt - 60000

\* a step in which the request in slot s looks its query up in the cache
LooksUp(s) == req[s].pc = "body" /\ InSeq("getCached", req'[s].ops)
\* the key of that lookup
LookupKey(s) == CacheKey(req'[s].query)

\* C23: an entry written at time w has expiresAt = w + 300000; a lookup at time t of
\* a key stored answers with the stored response and leaves the cache as it is when
\* t <= expiresAt, and when t > expiresAt it deletes the entry and goes on as for an
\* absent key (the entry is there afterwards only if this request wrote it anew); no
\* step but a lookup of an entry's own key after its expiry removes the entry, and
\* no step but a write changes an entry.
C23_CacheExpiry ==
    [][/\ \A k \in DOMAIN promptCache' :
             (k \notin DOMAIN promptCache \/ promptCache'[k] # promptCache[k])
                => /\ promptCache'[k].expiresAt = now + 300000
                   /\ \E s \in Slots : /\ InSeq("setCache", req'[s].ops)
                                       /\ req'[s] # req[s]
                                       /\ CacheKey(req'[s].query) = k
       /\ \A k \in DOMAIN promptCache :
             k \notin DOMAIN promptCache'
                => /\ now > promptCache[k].expiresAt
                   /\ \E s \in Slots : LooksUp(s) /\ LookupKey(s) = k
       /\ \A s \in Slots :
             (LooksUp(s) /\ LookupKey(s) \in DOMAIN promptCache)
                => IF now <= promptCache[LookupKey(s)].expiresAt
                   THEN /\ req'[s].resp = Ok(promptCache[LookupKey(s)].data)
                        /\ req'[s].pc = "done"
                        /\ promptCache' = promptCache
                   ELSE /\ InSeq("tryKeywordMatch", req'[s].ops)
                        /\ \/ LookupKey(s) \notin DOMAIN promptCache'
                           \/ /\ InSeq("setCache", req'[s].ops)
                              /\ promptCache'[LookupKey(s)].expiresAt = now + 300000]_vars

\* C23 happens: a request looked up a key whose entry, written by an earlier
\* request, had expired; the entry is gone and the request called the collaborator
C23_Witness ==
    \E a, b \in Slots :
        /\ Done(a) /\ Did(a, "setCache")
        /\ req[b].seenWriter = req[a].id
        /\ CacheKey(req[b].query) = CacheKey(req[a].query)
        /\ req[b].tBody > req[a].servedExp
        /\ Did(b, "generateContent")
        /\ CacheKey(req[b].query) \notin DOMAIN promptCache

\* the requests in slots a and b are for the same cache key
SameKey(a, b) == CacheKey(req[a].query) = CacheKey(req[b].query)
\* the request called the collaborator and was answered from its reply
AnsweredByReply(s) ==
    Done(s) /\ Did(s, "generateContent") /\ req[s].llm = "settled" /\ ~Did(s, "catch")

\* C24: there is no single-flight.  A request that misses the cache with a query
\* that is no keyword calls the collaborator also while another request for the same
\* key is waiting on its own call; a request answered from a reply is answered from
\* its own reply (its matches are among that reply's); and a request that writes the
\* cache replaces whatever is stored under its key: the entry then holds that
\* request's response and expires 300000 ms after that write.
C24_NoSingleFlight ==
    /\ [](\A s \in Slots :
            (AnsweredByReply(s) /\ req[s].resp.status = 200)
               => /\ req[s].resp = PostReply(req[s].query, req[s].reply, 0, <<>>).resp
                  /\ {req[s].resp.body.matches[i].id : i \in DOMAIN req[s].resp.body.matches}
                        \subseteq ReplyIds(req[s].reply))
    /\ [][\A s \in Slots :
            /\ (LooksUp(s) /\ InSeq("generateContent", req'[s].ops))
                  => /\ req'[s].pc = "llm"
                     /\ req'[s].llm = "pending"
                     /\ \A o \in Slots \ {s} : req'[o] = req[o]
            /\ (Responds(s) /\ InSeq("setCache", req'[s].ops))
                  => /\ promptCache'[CacheKey(req'[s].query)]
                           = [data |-> req'[s].resp.body, expiresAt |-> now + 300000]
                     /\ cacheWriter'[CacheKey(req'[s].query)] = req'[s].id]_vars

\* C24 happens: two requests for the same key both missed the cache, the second
\* while the first was waiting, both called the collaborator, were answered with
\* different results and wrote the cache; the entry is the response of the one that
\* wrote last
C24_Witness ==
    \E a, b \in Slots :
        /\ a # b /\ SameKey(a, b)
        /\ AnsweredByReply(a) /\ AnsweredByReply(b)
        /\ Did(a, "setCache") /\ Did(b, "setCache")
        /\ req[a].seenWriter = 0 /\ req[b].seenWriter = 0
        /\ req[a].resp # req[b].resp
        /\ req[a].servedExp < req[b].servedExp
        /\ cacheWriter[CacheKey(req[b].query)] = req[b].id
        /\ promptCache[CacheKey(req[b].query)].data = req[b].resp.body
        /\ promptCache[CacheKey(req[b].query)].expiresAt = req[b].servedExp

\* the validated list of the request's reply, its ids outside the inventory dropped
SafeList(s) ==
    SelectSeq(AIResponseSchema(req[s].reply.value).matches, LAMBDA m : m.id \in VALID_IDS)
\* the number an explicit ceiling phrase of the query states, Null when it has none
StatedCeiling(query) ==
    LET lower == toLowerCase(query)
        explicit == {i \in 1..Len(lower) : ExplicitAt(lower, i) # ""}
        suffix == {i \in 1..Len(lower) : SuffixAt(lower, i) # ""}
    IN IF explicit # {} THEN Some(parseInt(ExplicitAt(lower, Min(explicit))))
       ELSE IF suffix # {} THEN Some(parseInt(SuffixAt(lower, Min(suffix))))
       ELSE Null
SaysCheap(query) == HasWord(toLowerCase(query), CheapWords)
SaysExpensive(query) == HasWord(toLowerCase(query), ExpensiveWords)
\* the hint speaks of a price floor
FloorHint(h) == includes(h, "+ price point") \/ includes(h, "+. Try lowering")

\* C25: at most one of ceiling and floor is applied to a query.  In a 200 response
\* computed from a reply: when the query states a number, the matches are the
\* validated list cut at price <= that number, also when the query has a cheap word
\* (the number, not 60, is the ceiling) and also when it has a floor word (no floor
\* is applied, and the hint of an empty result is the ceiling's); when it has only a
\* cheap word the cut is at 60; the floor 200 is applied only when the query has
\* neither a number nor a cheap word.
C25_CeilingBeforeFloor ==
    \A s \in Slots :
        (AnsweredByReply(s) /\ req[s].resp.status = 200) =>
            LET q == req[s].query
                n == StatedCeiling(q)
                cut(c) == SelectSeq(SafeList(s), LAMBDA m : PriceOf(m.id) <= c)
                got == req[s].resp.body.matches
            IN /\ n.some => got = cut(n.v)
               /\ (~n.some /\ SaysCheap(q)) => got = cut(60)
               /\ (n.some \/ SaysCheap(q))
                     => (HasHint(s) => ~FloorHint(req[s].resp.body.hint))
               /\ (~n.some /\ ~SaysCheap(q) /\ SaysExpensive(q))
                     => /\ got = SelectSeq(SafeList(s), LAMBDA m : PriceOf(m.id) >= 200)
                        /\ (got = <<>> => (HasHint(s) /\ FloorHint(req[s].resp.body.hint)))
               /\ (~n.some /\ ~SaysCheap(q) /\ ~SaysExpensive(q)) => got = SafeList(s)

\* C25 happens: a query with a floor word and a stated ceiling was answered with
\* matches under the ceiling and below the floor, an item above the ceiling cut
C25_Witness ==
    \E s \in Slots :
        /\ AnsweredByReply(s) /\ req[s].resp.status = 200
        /\ SaysExpensive(req[s].query)
        /\ StatedCeiling(req[s].query).some
        /\ req[s].resp.body.matches # <<>>
        /\ \A i \in DOMAIN req[s].resp.body.matches :
              PriceOf(req[s].resp.body.matches[i].id) < 200
        /\ Len(req[s].resp.body.matches) < Len(SafeList(s))

\* the explicit number of a query with a cheap word is its ceiling: an item priced
\* between 60 and the number is kept
C25_NumberBeatsWord ==
    \E s \in Slots :
        /\ AnsweredByReply(s) /\ req[s].resp.status = 200
        /\ SaysCheap(req[s].query)
        /\ StatedCeiling(req[s].query).some
        /\ \E i \in DOMAIN req[s].resp.body.matches :
              PriceOf(req[s].resp.body.matches[i].id) > 60

\* the items of the reply's list, as the collaborator wrote them
ReplyItems(s) == req[s].reply.value.matches.items
\* the i-th smallest element of a set of numbers
Nth(P, i) == CHOOSE p \in P : Cardinality({x \in P : x <= p}) = i
\* the item violates the budget of the query
ViolatesBudget(query, id) ==
    LET c == extractBudget(query)
        f == wantsExpensive(query)
    IN IF c.some THEN PriceOf(id) > c.v
       ELSE IF f.some THEN PriceOf(id) < f.v
       ELSE FALSE

\* C26: the matches of a 200 response computed from a reply are the items of the
\* reply's list at the positions of the items that do not violate the budget, in
\* the order of those positions, each with the id and the reason the collaborator
\* gave it: nothing is added, reordered or rewritten.
C26_ReplyOrderKept ==
    \A s \in Slots :
        (AnsweredByReply(s) /\ req[s].resp.status = 200) =>
            LET items == ReplyItems(s)
                got == req[s].resp.body.matches
                P == {i \in DOMAIN items : ~ViolatesBudget(req[s].query, items[i].id.value)}
            IN /\ Len(got) = Cardinality(P)
               /\ \A k \in DOMAIN got :
                     /\ got[k].id = items[Nth(P, k)].id.value
                     /\ got[k].reason = items[Nth(P, k)].reason.value
                     /\ DOMAIN got[k] = {"id", "reason"}

\* C26 happens: a reply listing the items in an order that is not the inventory's
\* lost an item to the budget, and the response keeps the others in the reply's order
C26_Witness ==
    \E s \in Slots :
        /\ AnsweredByReply(s) /\ req[s].resp.status = 200
        /\ Len(req[s].resp.body.matches) >= 2
        /\ Len(req[s].resp.body.matches) < Len(ReplyItems(s))
        /\ req[s].resp.body.matches[1].id > req[s].resp.body.matches[2].id

\* the position of the item with this id in the inventory
InventoryPos(id) == CHOOSE i \in DOMAIN travelPackages : travelPackages[i].id = id
\* the number of tags the item shares with the keyword's mapped tags
Overlap(id, k) == Cardinality(TagsOf(id) \cap MappedTags(k))
\* the list of matches is in inventory order, which is ascending in id, and does not
\* rise in overlap with the keyword's tags
ShortcutOrdered(matches, k) ==
    \A i, j \in DOMAIN matches :
        i < j => /\ InventoryPos(matches[i].id) < InventoryPos(matches[j].id)
                 /\ matches[i].id < matches[j].id
                 /\ Overlap(matches[i].id, k) >= Overlap(matches[j].id, k)
\* every keyword's list is ordered so
EveryKeywordOrdered == \A k \in Keywords : ShortcutOrdered(tryKeywordMatch(k).matches, k)

\* C27: the matches of the keyword shortcut are in inventory iteration order, which
\* is id ascending, and for every keyword of the map that order does not rise in the
\* number of tags shared with the keyword's mapped tags; so are the matches of every
\* response the shortcut gives.
C27_ShortcutOrder ==
    /\ EveryKeywordOrdered
    /\ \A s \in Slots :
          ShortcutHit(s) => /\ req[s].resp.status = 200
                            /\ ShortcutOrdered(req[s].resp.body.matches, Normalized(s))

\* C27 happens: the shortcut answered a keyword with two matches that share
\* different numbers of tags with it, the one sharing more first
C27_Witness ==
    \E s \in Slots :
        /\ ShortcutHit(s)
        /\ Len(req[s].resp.body.matches) >= 2
        /\ Overlap(req[s].resp.body.matches[1].id, Normalized(s))
              > Overlap(req[s].resp.body.matches[2].id, Normalized(s))

\* the response was the configuration fault
ConfigFault(s) == Done(s) /\ req[s].resp = Err(500, MsgConfig)

\* C28: the credential is read when a request arrives, after the rate limiter and
\* before anything else: a request the limiter admits while the credential is absent
\* is answered 500 with the configuration message at once, its body not validated,
\* the cache neither read nor changed and the shortcut not tried, whatever its body
\* and whatever the cache holds; one admitted while the credential is present goes
\* on to read its body.  Only the credential at the arrival of the request counts.
C28_CredentialFirst ==
    /\ [](\A s \in Slots :
            ConfigFault(s) => req[s].ops = <<"isRateLimited", "apiKey">>)
    /\ [][\A s \in Slots :
            (Arrives(s) /\ ~DeniedNext(s))
               => IF apiKey
                  THEN req'[s].pc = "body" /\ req'[s].responses = 0
                  ELSE /\ req'[s].pc = "done"
                       /\ req'[s].resp = Err(500, MsgConfig)
                       /\ req'[s].responses = 1
                       /\ promptCache' = promptCache
                       /\ rateLimitMap'[req'[s].ip].count = req'[s].priorAdmits + 1]_vars

\* C28 happens: after the shortcut answered a keyword and cached the answer, the
\* credential was unset, and the same keyword, its entry still alive in the cache,
\* was answered with the configuration fault
C28_Witness ==
    \E a, b \in Slots :
        /\ ShortcutHit(a) /\ Did(a, "setCache")
        /\ ConfigFault(b)
        /\ req[b].id > req[a].id
        /\ req[b].body = req[a].body
        /\ CacheKey(req[a].query) \in DOMAIN promptCache
        /\ req[b].tArrive <= promptCache[CacheKey(req[a].query)].expiresAt
        /\ ~apiKey

\* C28 happens also for a body that validation would refuse
C28_InvalidBody ==
    \E s \in Slots : ConfigFault(s) /\ InvalidBody(req[s].body)

\* what the shortcut caches for a keyword typed as the map spells it
ShortcutCaches(k) == BudgetFilter(tryKeywordMatch(k).matches, k)
\* no keyword of the map states a budget, and the shortcut has a match for each
KeywordsCacheMatches ==
    \A k \in Keywords :
        /\ ~extractBudget(k).some
        /\ ~wantsExpensive(k).some
        /\ \E id \in InventoryIds : TagsOf(id) \cap MappedTags(k) # {}
        /\ ShortcutCaches(k) # <<>>

\* C29: every entry of the cache holds a response with at least one and at most 5
\* matches, each with an inventory id, and without a hint; and every keyword of the
\* map maps to a tag some inventory item carries and states neither ceiling nor
\* floor, so that what the shortcut caches is never an empty list.
C29_CacheContent ==
    /\ KeywordsCacheMatches
    /\ \A k \in DOMAIN promptCache :
          LET data == promptCache[k].data IN
          /\ DOMAIN data = {"matches"}
          /\ Len(data.matches) >= 1
          /\ Len(data.matches) <= 5
          /\ \A i \in DOMAIN data.matches : data.matches[i].id \in InventoryIds

\* C29 happens: the cache holds an entry the shortcut wrote and an entry of 5
\* matches written from a collaborator's reply
C29_Witness ==
    \E a, b \in Slots :
        /\ ShortcutHit(a) /\ Did(a, "setCache")
        /\ AnsweredByReply(b) /\ Did(b, "setCache")
        /\ cacheWriter[CacheKey(req[a].query)] = req[a].id
        /\ cacheWriter[CacheKey(req[b].query)] = req[b].id
        /\ Len(promptCache[CacheKey(req[b].query)].data.matches) = 5
        /\ Len(promptCache[CacheKey(req[a].query)].data.matches) >= 1

\* C30: every rate-limit entry has 1 <= count <= 10; the arrival of a request
\* changes no entry but its own client's, and none at all when the request is denied
\* (the count is not raised, resetAt not moved); no other step changes the map; and
\* a request without the forwarded-address header is counted in the entry 'unknown',
\* one with the header in the entry of the header's value.
C30_RateLimitFrame ==
    /\ [](/\ \A ip \in DOMAIN rateLimitMap :
               rateLimitMap[ip].count >= 1 /\ rateLimitMap[ip].count <= 10
          /\ \A s \in Slots :
               req[s].id # 0 => /\ req[s].ip \in DOMAIN rateLimitMap
                                /\ req[s].ip = (IF req[s].hdr = NoHeader THEN "unknown"
                                                ELSE req[s].hdr))
    /\ [][/\ \A s \in Slots :
               Arrives(s) =>
                  /\ DOMAIN rateLimitMap' = DOMAIN rateLimitMap \cup {req'[s].ip}
                  /\ \A o \in DOMAIN rateLimitMap \ {req'[s].ip} :
                        rateLimitMap'[o] = rateLimitMap[o]
                  /\ DeniedNext(s) => rateLimitMap' = rateLimitMap
          /\ (\A s \in Slots : ~Arrives(s)) => rateLimitMap' = rateLimitMap]_vars

\* C30 happens: a request without the header was denied at count 10 while the
\* other client's entry, opened earlier, is as that client's requests left it
C30_Witness ==
    \E s \in Slots :
        /\ req[s].hdr = NoHeader
        /\ Done(s) /\ req[s].ops = <<"isRateLimited">>
        /\ rateLimitMap["unknown"].count = 10
        /\ "10.0.0.1" \in DOMAIN rateLimitMap
        /\ rateLimitMap["10.0.0.1"].count = admits["10.0.0.1"]
        /\ rateLimitMap["10.0.0.1"].count = 1

====
